---------------------------- MODULE Spec2Model ----------------------------
(***************************************************************************)
(* State-machine model of mcp-server-scholar-oa: the ingest tool           *)
(* (ingestToOpenWebUITool), the candidate cache, the OpenWebUI client and  *)
(* the tool-call boundary.  One action per suspension point (await) of the *)
(* code; the synchronous code that follows an await belongs to the action  *)
(* of that await's completion.                                             *)
(*                                                                         *)
(* Strings that the code inspects character by character (candidate ids,   *)
(* knowledge-base names, configuration values) are tuples of one-character *)
(* strings.                                                                *)
(***************************************************************************)
EXTENDS Integers, Sequences, FiniteSets, TLC

(***************************************************************************)
(* Bounds of the model.                                                    *)
(***************************************************************************)
\* most candidates one call selects; the candidateIds lists are that long, or
\* one longer where the cap is what varies
MaxIds == 2
\* number of tool calls in one behaviour
MaxCalls == 2
\* largest fileProcessTimeoutSec, counted in poll periods
MaxPolls == 2
\* number of requests and file operations that fail, or files that do not
\* complete, in one behaviour
MaxFaults == 2

(***************************************************************************)
(* Values standing for JavaScript's null and undefined.                    *)
(***************************************************************************)
Null == "null"
Undefined == "undefined"

\* undefined, for a value that is otherwise a tuple of characters
UndefinedT == <<"undefined">>

\* a ?? b
Coalesce(a, b) == IF a \in {Null, Undefined} THEN b ELSE a

CoalesceT(a, b) == IF a = UndefinedT THEN b ELSE a

\* JavaScript truthiness of a string-or-null value ("" is falsy)
Truthy(v) == v \notin {Null, Undefined, ""}

(***************************************************************************)
(* Sequence helpers.                                                       *)
(***************************************************************************)
Range(s) == {s[i] : i \in 1..Len(s)}

Min(a, b) == IF a <= b THEN a ELSE b

\* Array.prototype.slice(0, n)
Take(s, n) == SubSeq(s, 1, Min(n, Len(s)))

\* [...new Set(list)]: first occurrences, in order
RECURSIVE UniqueFrom(_, _)
UniqueFrom(s, seen) ==
    IF s = <<>> THEN <<>>
    ELSE IF Head(s) \in seen THEN UniqueFrom(Tail(s), seen)
    ELSE <<Head(s)>> \o UniqueFrom(Tail(s), seen \cup {Head(s)})

Unique(s) == UniqueFrom(s, {})

RECURSIVE SeqsUpTo(_, _)
SeqsUpTo(S, n) ==
    IF n = 0 THEN {<<>>}
    ELSE LET shorter == SeqsUpTo(S, n - 1)
         IN  shorter \cup {Append(s, x) : s \in {t \in shorter : Len(t) = n - 1}, x \in S}

(***************************************************************************)
(* String.prototype.trim / toLowerCase / includes on character tuples.     *)
(***************************************************************************)
RECURSIVE TrimLeft(_)
TrimLeft(s) == IF s # <<>> /\ Head(s) = " " THEN TrimLeft(Tail(s)) ELSE s

RECURSIVE TrimRight(_)
TrimRight(s) ==
    IF s # <<>> /\ s[Len(s)] = " " THEN TrimRight(SubSeq(s, 1, Len(s) - 1)) ELSE s

Trim(s) == TrimRight(TrimLeft(s))

LowerChar(c) ==
    CASE c = "A" -> "a" [] c = "B" -> "b" [] c = "F" -> "f" [] c = "G" -> "g"
      [] c = "N" -> "n" [] c = "P" -> "p" [] c = "W" -> "w" [] OTHER -> c

ToLowerCase(s) == [i \in 1..Len(s) |-> LowerChar(s[i])]

\* hay.includes(needle)
Includes(hay, needle) ==
    \E i \in 0..(Len(hay) - Len(needle)) : SubSeq(hay, i + 1, i + Len(needle)) = needle

\* s.replace(/\/+$/, "")
RECURSIVE StripTrailingSlashes(_)
StripTrailingSlashes(s) ==
    IF s # <<>> /\ s[Len(s)] = "/" THEN StripTrailingSlashes(SubSeq(s, 1, Len(s) - 1)) ELSE s

(***************************************************************************)
(* normalizeOpenAlexId: raw.match(/W\d+/i), the first match, uppercased.   *)
(***************************************************************************)
IsDigit(c) == c \in {"0", "1", "2", "3", "4", "5", "6", "7", "8", "9"}

IsW(c) == c \in {"W", "w"}

\* the positions where /W\d+/i can start
MatchStarts(raw) ==
    {i \in 1..(Len(raw) - 1) : IsW(raw[i]) /\ IsDigit(raw[i + 1])}

\* the longest run of digits starting at position i
RECURSIVE DigitRun(_, _)
DigitRun(raw, i) ==
    IF i <= Len(raw) /\ IsDigit(raw[i]) THEN <<raw[i]>> \o DigitRun(raw, i + 1) ELSE <<>>

HasWorkId(raw) == MatchStarts(raw) # {}

ShortOf(raw) ==
    LET i == CHOOSE k \in MatchStarts(raw) : \A j \in MatchStarts(raw) : k <= j
    IN  <<"W">> \o DigitRun(raw, i + 1)

\* an address that holds a work id of its own
CanonicalPrefixWithId ==
    <<"h", "t", "t", "p", "s", ":", "/", "/", "w", "3", ".", "o", "r", "g", "/">>

\* "https://openalex.org/", line 148
CanonicalPrefix ==
    <<"h", "t", "t", "p", "s", ":", "/", "/", "o", "p", "e", "n", "a", "l", "e", "x", ".",
      "o", "r", "g", "/">>

normalizeOpenAlexId(raw) ==
    IF HasWorkId(raw)
    THEN [canonical |-> CanonicalPrefix \o ShortOf(raw), short |-> ShortOf(raw)]
    ELSE [throw |-> "Invalid OpenAlex id"]

Throws(v) == "throw" \in DOMAIN v

(***************************************************************************)
(* tokenize, uniqueTokens and computeRelevanceScore.  The strings of the   *)
(* model are written in the lower-case letters, the capitals LowerChar     *)
(* knows, the digits, the blank, "-" and "_"; any other element of a       *)
(* string is a character that is neither a letter nor a number.  A score   *)
(* is the exact fraction num/den, and a coverage printed by toFixed(2) is  *)
(* a number of hundredths.                                                 *)
(***************************************************************************)
Letters ==
    {"a", "b", "c", "d", "e", "f", "g", "h", "i", "j", "k", "l", "m",
     "n", "o", "p", "q", "r", "s", "t", "u", "v", "w", "x", "y", "z"}

Numbers == {"0", "1", "2", "3", "4", "5", "6", "7", "8", "9"}

\* [\p{L}\p{N}]
IsWordStart(c) == c \in Letters \cup Numbers

\* [\p{L}\p{N}_-]
IsWordChar(c) == IsWordStart(c) \/ c \in {"_", "-"}

\* position j is inside a match of /[\p{L}\p{N}][\p{L}\p{N}_-]*/gu: a letter or a
\* number at or before j begins a run of word characters that reaches j
InToken(s, j) ==
    \E k \in 1..j : IsWordStart(s[k]) /\ \A m \in k..j : IsWordChar(s[m])

\* a match starts at position i: the scan is not inside an earlier match
IsTokenStart(s, i) == IsWordStart(s[i]) /\ (i = 1 \/ ~InToken(s, i - 1))

\* the last position of the match that starts at position i: the match is greedy
TokenEnd(s, i) ==
    CHOOSE j \in i..Len(s) :
        /\ \A m \in i..j : IsWordChar(s[m])
        /\ j = Len(s) \/ ~IsWordChar(s[j + 1])

\* the matches that start at position i or later, in order
RECURSIVE TokensFrom(_, _)
TokensFrom(s, i) ==
    IF i > Len(s) THEN <<>>
    ELSE (IF IsTokenStart(s, i) THEN <<SubSeq(s, i, TokenEnd(s, i))>> ELSE <<>>)
         \o TokensFrom(s, i + 1)

tokenize(input) == TokensFrom(ToLowerCase(input), 1)

uniqueTokens(input) == Unique(tokenize(input))

\* (a / b).toFixed(2), in hundredths
ToFixed2(a, b) == (200 * a + b) \div (2 * b)

\* a boost given only when the words of the query are consecutive words of the title
phraseBoostWholeWords(query, title) ==
    IF tokenize(query) # <<>> /\ Includes(tokenize(title), tokenize(query)) THEN 15 ELSE 0

\* title.toLowerCase().includes(query.toLowerCase()) ? 0.15 : 0, in hundredths
phraseBoost(query, title) ==
    IF Includes(ToLowerCase(title), ToLowerCase(query)) THEN 15 ELSE 0

\* abstract.length > 0 ? 0.05 : 0, in hundredths
abstractBoost(abstract) == IF Len(abstract) > 0 THEN 5 ELSE 0

\* the number of the query tokens that are in the set tokens
Overlap(qTokens, tokens) == Cardinality({i \in DOMAIN qTokens : qTokens[i] \in tokens})

computeRelevanceScore(query, title, abstract) ==
    LET qTokens      == uniqueTokens(query)
        n            == Len(qTokens)
        overlap      == Overlap(qTokens, Range(tokenize(title \o <<" ">> \o abstract)))
        titleOverlap == Overlap(qTokens, Range(tokenize(title)))
        boosts       == phraseBoost(query, title) + abstractBoost(abstract)
    IN  IF n = 0
        THEN [score |-> [num |-> 0, den |-> 100], reasons |-> <<<<"Empty query tokens">>>>]
        ELSE [score |-> [num |-> Min(100 * n, 55 * overlap + 25 * titleOverlap + boosts * n),
                         den |-> 100 * n],
              reasons |->
                  <<<<"query_coverage=", ToFixed2(overlap, n)>>,
                    <<"title_coverage=", ToFixed2(titleOverlap, n)>>>>
                  \o (IF phraseBoost(query, title) > 0
                      THEN <<<<"exact_query_phrase_in_title">>>> ELSE <<>>)
                  \o (IF abstractBoost(abstract) > 0
                      THEN <<<<"abstract_available">>>> ELSE <<>>)]

\* a.relevanceScore >= b, for a score a and a number b of hundredths
ScoreAtLeast(a, b) == a.num * 100 >= b * a.den

\* a.relevanceScore > b.relevanceScore, for two scores
ScoreGreater(a, b) == a.num * b.den > b.num * a.den

\* rebuildAbstractFromInvertedIndex of a work that carries no inverted index
NoAbstract == <<>>

(***************************************************************************)
(* tryDownloadPdf, as a function of the HTTP exchange.  A response is      *)
(* [transport, ok, status, contentLength, bodyLen, contentType, signature]:*)
(* transport = FALSE is a fetch that rejects.  The result is the buffer or *)
(* the Error thrown.                                                       *)
(***************************************************************************)
MaxPdfBytes == 80 * 1024 * 1024

tryDownloadPdf(resp) ==
    IF ~resp.transport THEN [throw |-> "fetch failed"]
    ELSE IF ~resp.ok THEN [throw |-> "HTTP " \o resp.status]
    ELSE IF resp.contentLength > MaxPdfBytes THEN [throw |-> "PDF too large"]
    ELSE IF ~resp.contentType /\ resp.signature # "%PDF"
         THEN [throw |-> "Downloaded content is not a PDF"]
    ELSE [buffer |-> "pdf-bytes"]

\* the exchanges a PDF host can answer with (contentType: the header includes "pdf")
DownloadResponses ==
    { [transport |-> TRUE, ok |-> TRUE, status |-> "200", contentLength |-> 0,
       bodyLen |-> 10, contentType |-> TRUE, signature |-> "%PDF"],
      [transport |-> TRUE, ok |-> TRUE, status |-> "200", contentLength |-> 10,
       bodyLen |-> 10, contentType |-> FALSE, signature |-> "%PDF"],
      [transport |-> TRUE, ok |-> FALSE, status |-> "404", contentLength |-> 0,
       bodyLen |-> 0, contentType |-> FALSE, signature |-> "<htm"],
      [transport |-> TRUE, ok |-> TRUE, status |-> "200", contentLength |-> MaxPdfBytes + 1,
       bodyLen |-> MaxPdfBytes + 1, contentType |-> TRUE, signature |-> "%PDF"],
      [transport |-> TRUE, ok |-> TRUE, status |-> "200", contentLength |-> 10,
       bodyLen |-> 10, contentType |-> FALSE, signature |-> "<htm"],
      [transport |-> FALSE, ok |-> FALSE, status |-> "0", contentLength |-> 0,
       bodyLen |-> 0, contentType |-> FALSE, signature |-> ""] }

(***************************************************************************)
(* OpenAlexClient.getWork / toCandidate.  A work as the index serves it is *)
(* [is_oa, pdf_url, oa_url]; its id is the one asked for.                  *)
(***************************************************************************)
OaWithPdf == [is_oa |-> TRUE, pdf_url |-> "http://pdf", oa_url |-> Null]

OaNoUrl == [is_oa |-> TRUE, pdf_url |-> Null, oa_url |-> Null]

OaEmptyUrl == [is_oa |-> TRUE, pdf_url |-> "", oa_url |-> "http://pdf"]

ClosedWithUrl == [is_oa |-> FALSE, pdf_url |-> Null, oa_url |-> "http://pdf"]

\* the works the index may hold under the short ids W1 and W2
WorkDbs ==
    { (<<"W", "1">> :> OaWithPdf)     @@ (<<"W", "2">> :> OaEmptyUrl),
      (<<"W", "1">> :> ClosedWithUrl) @@ (<<"W", "2">> :> OaNoUrl) }

\* the title of a work: one character that is no letter and no number, then the
\* short id
TitleOf(short) == <<"Title of">> \o short

toCandidate(workId, shape, query) ==
    LET idInfo    == normalizeOpenAlexId(workId)
        relevance == computeRelevanceScore(query, TitleOf(idInfo.short), NoAbstract)
    IN  [openalexId       |-> idInfo.canonical,
         openalexShortId  |-> idInfo.short,
         title            |-> TitleOf(idInfo.short),
         isOa             |-> (shape.is_oa = TRUE),
         pdfUrl           |-> Coalesce(shape.pdf_url, Coalesce(shape.oa_url, Null)),
         abstract         |-> NoAbstract,
         relevanceScore   |-> relevance.score,
         relevanceReasons |-> relevance.reasons]

NoCandidate == [none |-> TRUE]

(***************************************************************************)
(* The retrieval notes of ingestToOpenWebUITool and its scratch paths.     *)
(***************************************************************************)
NoteUnavailable == <<"OA PDF unavailable; stored abstract-only note.">>

NoteDownloaded == <<"Downloaded OA PDF and uploaded for full embedding.">>

NoteFailed(msg) == <<"PDF download failed (", msg, "); stored abstract-only note.">>

\* sanitizeFilename(`${title}_${shortId}`), kept as the pair it is built from: the
\* titles of the catalogue are far shorter than the cut of sanitizeFilename, and
\* below the cut the name determines the short id it ends with
BaseName(cand) == <<cand.title, cand.openalexShortId>>

ScratchPath(cand, ext) == <<BaseName(cand), ext>>

NoPath == <<>>

\* server-assigned identifiers; null is the empty tuple
NullId == <<>>

FileId(n) == <<"file", n>>

KbId(n) == <<"kb", n>>

(***************************************************************************)
(* State.                                                                  *)
(***************************************************************************)
VARIABLES
    env,               \* process.env: [url, key], each a character tuple or UndefinedT
    works,             \* the OpenAlex index: short id -> work
    candidateCache,    \* the module-level Map: key -> PaperCandidate
    kbs,               \* the knowledge bases on the OpenWebUI server
    filesUploaded,     \* number of files the server has accepted so far
    fs,                \* the scratch directory: path -> content
    callNo,            \* number of tool calls started so far
    request,           \* request.params of the running call: [name, arguments]
    pc,                \* the await the running call is suspended at
    input,             \* the parsed arguments of the running call
    selectedIds,
    idx,               \* position in selectedIds of the candidate in the loop
    processed,
    successfulFileIds,
    candidates,        \* the rescored candidates of the running screen call
    candidate,
    localPath,
    retrievalMode,
    retrievalNote,
    uploadedFileId,
    uploadStatus,
    uploadError,
    now,               \* poll periods elapsed since waitForFileProcessed began
    faults,            \* number of environment answers so far that were not a success
    kbInfo,
    response,          \* what the tool-call boundary returned
    netLog,            \* the requests the running call has completed, in order
    cur,               \* what happened to the candidate in the loop
    hist,              \* cur of every candidate already recorded
    reports,           \* knowledge_base part of every report returned so far
    other              \* the call that is suspended while the running call takes steps

vars ==
    <<env, works, candidateCache, kbs, filesUploaded, fs, callNo, request, pc, input,
      selectedIds, idx, processed, successfulFileIds, candidates, candidate, localPath, retrievalMode, retrievalNote,
      uploadedFileId, uploadStatus, uploadError, now, faults, kbInfo, response, netLog,
      cur, hist, reports, other>>

sharedVars == <<env, other, works, candidateCache, kbs, filesUploaded, fs>>

callVars == <<callNo, request, input, selectedIds>>

loopVars == <<idx, processed, successfulFileIds, candidates>>

candVars == <<candidate, localPath, retrievalMode, retrievalNote>>

upVars == <<uploadedFileId, uploadStatus, uploadError, now>>

NoRequest == [none |-> TRUE]

NoInput == [none |-> TRUE]

NoKbInfo == [none |-> TRUE]

NoResponse == [none |-> TRUE]

FreshCur ==
    [raw |-> <<>>, cand |-> NoCandidate, download |-> "not attempted", written |-> {},
     uploadTried |-> FALSE, assigned |-> <<>>, observed |-> "none", threw |-> "null",
     polled |-> "none", unlinkTried |-> NoPath, unlinkOk |-> FALSE]

(***************************************************************************)
(* Input of the ingest tool: ingestToOpenWebUISchema, scaled.              *)
(***************************************************************************)
MaxCandidateIds == 30

MaxPapersLimit == 30

\* ids that name a work: W1, the same work in lower case, and W2
IdStrings == {<<"W", "1">>, <<"w", "1">>, <<"W", "2">>}

\* "not-an-id": no W-digit pattern
BadId == <<"x">>

KbNames == {<<"a">>, <<"A", " ">>}

ConfigUrls == {UndefinedT, <<" ">>, <<"h", "/">>}

ConfigKeys == {UndefinedT, <<"k">>}

\* the calls that vary the candidate list: the lists without a repeated string,
\* the empty one among them, under a cap that drops nothing
ListArgs ==
    [candidateIds : {ids \in SeqsUpTo(IdStrings, MaxIds) :
                        \A i, j \in DOMAIN ids : ids[i] = ids[j] => i = j},
     maxPapers : {MaxIds},
     makePublic : {TRUE},
     knowledgeBaseName : {<<"a">>},
     fileProcessTimeoutSec : {MaxPolls},
     openwebuiBaseUrl : {UndefinedT},
     openwebuiApiKey : {UndefinedT}]

\* the calls that vary the cap, on lists of upper-case ids that are longer than
\* any cap and so repeat an id
CapArgs ==
    [candidateIds : {ids \in SeqsUpTo({<<"W", "1">>, <<"W", "2">>}, MaxIds + 1) :
                        Len(ids) = MaxIds + 1},
     maxPapers : 1..MaxIds,
     makePublic : {TRUE},
     knowledgeBaseName : {<<"a">>},
     fileProcessTimeoutSec : {MaxPolls},
     openwebuiBaseUrl : {UndefinedT},
     openwebuiApiKey : {UndefinedT}]

\* the calls the schema rejects: a cap of 0, an empty id
MalformedArgs ==
    [candidateIds : {<<<<"W", "1">>>>, <<<<>>>>},
     maxPapers : {0, 1},
     makePublic : {TRUE},
     knowledgeBaseName : {<<"a">>},
     fileProcessTimeoutSec : {MaxPolls},
     openwebuiBaseUrl : {UndefinedT},
     openwebuiApiKey : {UndefinedT}]

\* the calls that vary the knowledge base asked for and the polling deadline
KbArgs ==
    [candidateIds : {<<<<"W", "1">>>>},
     maxPapers : {1},
     makePublic : BOOLEAN,
     knowledgeBaseName : KbNames,
     fileProcessTimeoutSec : 1..MaxPolls,
     openwebuiBaseUrl : {UndefinedT},
     openwebuiApiKey : {UndefinedT}]

\* the calls made one after another: they vary the name asked for
SeqArgs ==
    [candidateIds : {<<<<"W", "1">>>>},
     maxPapers : {1},
     makePublic : {TRUE},
     knowledgeBaseName : KbNames,
     fileProcessTimeoutSec : {MaxPolls},
     openwebuiBaseUrl : {UndefinedT},
     openwebuiApiKey : {UndefinedT}]

\* the calls that override the configuration
ConfigArgs ==
    [candidateIds : {<<<<"W", "1">>>>},
     maxPapers : {1},
     makePublic : {TRUE},
     knowledgeBaseName : {<<"a">>},
     fileProcessTimeoutSec : {MaxPolls},
     openwebuiBaseUrl : ConfigUrls,
     openwebuiApiKey : ConfigKeys]

\* the calls that hold an id of no work
BadIdArgs ==
    [candidateIds : {<<BadId>>, <<<<"W", "1">>, BadId>>},
     maxPapers : {MaxIds},
     makePublic : {TRUE},
     knowledgeBaseName : {<<"a">>},
     fileProcessTimeoutSec : {MaxPolls},
     openwebuiBaseUrl : {UndefinedT},
     openwebuiApiKey : {UndefinedT}]

\* the calls made against the server holding the bases `bases`: the lists and
\* the caps vary against the empty server, the knowledge base asked for and the
\* configuration against every server
IngestArgs(bases) ==
    IF bases = {}
    THEN ListArgs \cup CapArgs \cup BadIdArgs \cup MalformedArgs \cup KbArgs \cup ConfigArgs
    ELSE MalformedArgs \cup KbArgs \cup ConfigArgs

\* the knowledge bases the server may hold before the first call
InitialKbs ==
    { {},
      {[id |-> KbId(1), name |-> <<"a">>, access_control |-> Null]},
      {[id |-> KbId(1), name |-> <<"a">>, access_control |-> "restricted"]} }

\* ingestToOpenWebUISchema.parse succeeds
SchemaOk(args) ==
    /\ Len(args.candidateIds) >= 1
    /\ Len(args.candidateIds) <= MaxCandidateIds
    /\ \A i \in 1..Len(args.candidateIds) : Len(args.candidateIds[i]) >= 1
    /\ args.maxPapers >= 1
    /\ args.maxPapers <= MaxPapersLimit

\* a client that does not trim the address
OpenWebUIClientNewNoTrim(baseUrlArg, apiKeyArg) ==
    LET baseUrl == StripTrailingSlashes(CoalesceT(baseUrlArg, CoalesceT(env.url, <<>>)))
        apiKey  == Trim(CoalesceT(apiKeyArg, CoalesceT(env.key, <<>>)))
    IN  IF baseUrl = <<>> THEN [throw |-> "OPENWEBUI_BASE_URL is required"]
        ELSE IF apiKey = <<>> THEN [throw |-> "OPENWEBUI_API_KEY is required"]
        ELSE [baseUrl |-> baseUrl, apiKey |-> apiKey]

\* new OpenWebUIClient({baseUrl, apiKey})
OpenWebUIClientNew(baseUrlArg, apiKeyArg) ==
    LET baseUrl == StripTrailingSlashes(Trim(CoalesceT(baseUrlArg, CoalesceT(env.url, <<>>))))
        apiKey  == Trim(CoalesceT(apiKeyArg, CoalesceT(env.key, <<>>)))
    IN  IF baseUrl = <<>> THEN [throw |-> "OPENWEBUI_BASE_URL is required"]
        ELSE IF apiKey = <<>> THEN [throw |-> "OPENWEBUI_API_KEY is required"]
        ELSE [baseUrl |-> baseUrl, apiKey |-> apiKey]

\* a selection that caps the list as given, repeats included
SelectIdsNoDedupe(candidateIds, maxPapers) == Take(candidateIds, maxPapers)

\* uniqueIds.slice(0, maxPapers) of [...new Set(candidateIds)]
SelectIds(candidateIds, maxPapers) == Take(Unique(candidateIds), maxPapers)

(***************************************************************************)
(* The tool-call boundary: what the CallToolRequestSchema handler returns. *)
(***************************************************************************)
\* the response of the catch, lines 96-104; text holds the message that follows
\* the fixed words "Error executing tool <name>: "
ErrorResponse(msg) == [isError |-> TRUE, text |-> msg]

\* the variables of a call, as they are kept while the call is suspended
Context ==
    [request |-> request, pc |-> pc, input |-> input, selectedIds |-> selectedIds, idx |-> idx,
     processed |-> processed, successfulFileIds |-> successfulFileIds,
     candidates |-> candidates, candidate |-> candidate, localPath |-> localPath,
     retrievalMode |-> retrievalMode, retrievalNote |-> retrievalNote,
     uploadedFileId |-> uploadedFileId, uploadStatus |-> uploadStatus,
     uploadError |-> uploadError, now |-> now, kbInfo |-> kbInfo, response |-> response,
     netLog |-> netLog, cur |-> cur, hist |-> hist]

\* no call is suspended: the variables of a call that has not begun
NoCall ==
    [request |-> NoRequest, pc |-> "idle", input |-> NoInput, selectedIds |-> <<>>, idx |-> 1,
     processed |-> <<>>, successfulFileIds |-> <<>>, candidates |-> <<>>,
     candidate |-> NoCandidate, localPath |-> NoPath, retrievalMode |-> "abstract-only",
     retrievalNote |-> NoteUnavailable, uploadedFileId |-> NullId, uploadStatus |-> "failed",
     uploadError |-> Null, now |-> 0, kbInfo |-> NoKbInfo, response |-> NoResponse,
     netLog |-> <<>>, cur |-> FreshCur, hist |-> <<>>]

\* the environment answers; an answer that is not the success draws on the budget
Answer(success) ==
    /\ success \/ faults < MaxFaults
    /\ faults' = IF success THEN faults ELSE faults + 1

\* an error that leaves the handler and stops the server
AbortCrash(msg) ==
    /\ pc' = "crashed"
    /\ response' = response

\* an error propagates out of the tool to the boundary's catch
Abort(msg) ==
    /\ pc' = "returned"
    /\ response' = ErrorResponse(msg)

Init ==
    /\ env \in {[url |-> UndefinedT, key |-> UndefinedT], [url |-> <<"h">>, key |-> <<"k">>]}
    /\ works \in WorkDbs
    /\ candidateCache = <<>>
    /\ kbs \in InitialKbs
    /\ filesUploaded = 0
    /\ fs = <<>>
    /\ callNo = 0
    /\ request = NoRequest
    /\ pc = "idle"
    /\ input = NoInput
    /\ selectedIds = <<>>
    /\ idx = 1
    /\ processed = <<>>
    /\ successfulFileIds = <<>>
    /\ candidates = <<>>
    /\ candidate = NoCandidate
    /\ localPath = NoPath
    /\ retrievalMode = "abstract-only"
    /\ retrievalNote = NoteUnavailable
    /\ uploadedFileId = NullId
    /\ uploadStatus = "failed"
    /\ uploadError = Null
    /\ now = 0
    /\ faults = 0
    /\ kbInfo = NoKbInfo
    /\ response = NoResponse
    /\ netLog = <<>>
    /\ cur = FreshCur
    /\ hist = <<>>
    /\ reports = <<>>
    /\ other = NoCall

(***************************************************************************)
(* ingestToOpenWebUITool, lines 325-333: parse, construct the client,      *)
(* select the ids, and suspend at mkdir.                                   *)
(***************************************************************************)
\* the fields of the parsed input the tool reads after the client is built
ParsedInput(args) ==
    [candidateIds |-> args.candidateIds, maxPapers |-> args.maxPapers,
     makePublic |-> args.makePublic,
     knowledgeBaseName |-> args.knowledgeBaseName,
     fileProcessTimeoutSec |-> args.fileProcessTimeoutSec]

IngestStart(args) ==
    /\ pc \in {"idle", "returned"}
    /\ callNo' = callNo + 1
    /\ request' = [name |-> "ingest_candidates_to_openwebui_kb", arguments |-> args]
    /\ idx' = 1
    /\ processed' = <<>>
    /\ successfulFileIds' = <<>>
    /\ candidates' = <<>>
    /\ candidate' = NoCandidate
    /\ localPath' = NoPath
    /\ retrievalMode' = "abstract-only"
    /\ retrievalNote' = NoteUnavailable
    /\ uploadedFileId' = NullId
    /\ uploadStatus' = "failed"
    /\ uploadError' = Null
    /\ now' = 0
    /\ kbInfo' = NoKbInfo
    /\ netLog' = <<>>
    /\ cur' = FreshCur
    /\ hist' = <<>>
    /\ IF ~SchemaOk(args)
       THEN /\ Abort("ZodError")
            /\ input' = NoInput
            /\ selectedIds' = <<>>
       ELSE LET client == OpenWebUIClientNew(args.openwebuiBaseUrl, args.openwebuiApiKey)
            IN  IF Throws(client)
                THEN /\ Abort(client.throw)
                     /\ input' = NoInput
                     /\ selectedIds' = <<>>
                ELSE /\ input' = ParsedInput(args)
                     /\ selectedIds' = SelectIds(args.candidateIds, args.maxPapers)
                     /\ pc' = "mkdir"
                     /\ response' = NoResponse
    /\ UNCHANGED <<sharedVars, faults, reports>>

\* await mkdir(..., {recursive: true}), line 333
MkdirReturn(ok) ==
    /\ pc = "mkdir"
    /\ Answer(ok)
    /\ IF ok
       THEN pc' = "resolve" /\ UNCHANGED response
       ELSE Abort("EACCES: mkdir")
    /\ UNCHANGED <<sharedVars, callVars, loopVars, candVars, upVars, kbInfo, netLog, cur,
                   hist, reports>>

(***************************************************************************)
(* cacheCandidate and resolveCandidate.                                    *)
(***************************************************************************)
\* a cache that keeps a candidate under its canonical id alone
cacheCandidateCanonicalOnly(cache, cand) ==
    [k \in DOMAIN cache \cup {cand.openalexId} |->
        IF k = cand.openalexId THEN cand ELSE cache[k]]

cacheCandidate(cache, cand) ==
    [k \in DOMAIN cache \cup {cand.openalexId, cand.openalexShortId} |->
        IF k \in {cand.openalexId, cand.openalexShortId} THEN cand ELSE cache[k]]

\* a cache that never answers
CacheLookupMiss(cache, idInfo) == NoCandidate

\* candidateCache.get(canonical) ?? candidateCache.get(short)
CacheLookup(cache, idInfo) ==
    IF idInfo.canonical \in DOMAIN cache THEN cache[idInfo.canonical]
    ELSE IF idInfo.short \in DOMAIN cache THEN cache[idInfo.short]
    ELSE NoCandidate

\* a test of the PDF URL against null alone
WantsPdfNonNull(cand) == cand.isOa /\ cand.pdfUrl # Null

\* the candidate is open-access and has a PDF URL: line 346
WantsPdf(cand) == cand.isOa /\ Truthy(cand.pdfUrl)

\* lines 340-347 / 353: the synchronous code from a resolved candidate to the
\* next await, the PDF fetch or the write of the abstract note
Acquire(cand, raw) ==
    /\ candidate' = cand
    /\ retrievalMode' = "abstract-only"
    /\ retrievalNote' = NoteUnavailable
    /\ IF WantsPdf(cand)
       THEN /\ pc' = "download"
            /\ localPath' = NoPath
            /\ cur' = [FreshCur EXCEPT !.raw = raw, !.cand = cand, !.download = "pending"]
       ELSE /\ pc' = "writeNote"
            /\ localPath' = ScratchPath(cand, "md")
            /\ cur' = [FreshCur EXCEPT !.raw = raw, !.cand = cand]

\* resolveCandidate up to its await: normalize, look the cache up
Resolve ==
    /\ pc = "resolve"
    /\ LET raw == selectedIds[idx]
           idInfo == normalizeOpenAlexId(raw)
       IN  IF Throws(idInfo)
           THEN /\ Abort(idInfo.throw)
                /\ UNCHANGED <<candVars, cur>>
           ELSE IF CacheLookup(candidateCache, idInfo) # NoCandidate
           THEN /\ Acquire(CacheLookup(candidateCache, idInfo), raw)
                /\ UNCHANGED response
           ELSE /\ pc' = "getWork"
                /\ cur' = [FreshCur EXCEPT !.raw = raw]
                /\ UNCHANGED <<candVars, response>>
    /\ UNCHANGED <<sharedVars, callVars, loopVars, upVars, faults, kbInfo, netLog, hist,
                   reports>>

\* await openAlexClient.getWork(canonical, query), then cacheCandidate; the
\* calls of the model pass no query, and the tool passes ""
GetWorkReturn(ok) ==
    /\ pc = "getWork"
    /\ Answer(ok)
    /\ LET idInfo == normalizeOpenAlexId(selectedIds[idx])
       IN  /\ netLog' = Append(netLog, [op |-> "getWork", arg |-> idInfo.short, at |-> idx])
           /\ IF ok
              THEN LET fetched == toCandidate(idInfo.canonical, works[idInfo.short], <<>>)
                   IN  /\ candidateCache' = cacheCandidate(candidateCache, fetched)
                       /\ Acquire(fetched, selectedIds[idx])
                       /\ UNCHANGED response
              ELSE /\ Abort("OpenAlex request failed: HTTP")
                   /\ UNCHANGED <<candidateCache, candVars, cur>>
    /\ UNCHANGED <<env, other, works, kbs, filesUploaded, fs, callVars, loopVars, upVars, kbInfo, hist,
                   reports>>

(***************************************************************************)
(* The acquisition tiers, lines 345-361.                                   *)
(***************************************************************************)
FsWrite(files, path, content) ==
    [p \in DOMAIN files \cup {path} |-> IF p = path THEN content ELSE files[p]]

FsUnlink(files, path) == [p \in DOMAIN files \ {path} |-> files[p]]

\* a catch block that keeps the default note
CatchAcquireDefaultNote(msg) ==
    /\ localPath' = ScratchPath(candidate, "md")
    /\ retrievalMode' = "abstract-only"
    /\ retrievalNote' = NoteUnavailable
    /\ pc' = "writeFallback"

\* the catch block up to its await: lines 357-360
CatchAcquire(msg) ==
    /\ localPath' = ScratchPath(candidate, "md")
    /\ retrievalMode' = "abstract-only"
    /\ retrievalNote' = NoteFailed(msg)
    /\ pc' = "writeFallback"

\* an upload that is taken as done without a request
BeginUploadSkip ==
    /\ uploadedFileId' = NullId
    /\ uploadStatus' = "failed"
    /\ uploadError' = Null
    /\ now' = 0
    /\ pc' = "status"

\* lines 363-367: the upload variables, and uploadFile up to its readFile
BeginUpload ==
    /\ uploadedFileId' = NullId
    /\ uploadStatus' = "failed"
    /\ uploadError' = Null
    /\ now' = 0
    /\ pc' = "uploadRead"

\* await tryDownloadPdf(candidate.pdfUrl), line 347
DownloadReturn(resp) ==
    /\ pc = "download"
    /\ Answer(~Throws(tryDownloadPdf(resp)))
    /\ netLog' = Append(netLog, [op |-> "download", arg |-> candidate.openalexShortId, at |-> idx])
    /\ LET got == tryDownloadPdf(resp)
       IN  IF Throws(got)
           THEN /\ CatchAcquire(got.throw)
                /\ cur' = [cur EXCEPT !.download = got.throw]
           ELSE /\ localPath' = ScratchPath(candidate, "pdf")
                /\ pc' = "writePdf"
                /\ cur' = [cur EXCEPT !.download = "ok"]
                /\ UNCHANGED <<retrievalMode, retrievalNote>>
    /\ UNCHANGED <<sharedVars, callVars, loopVars, candidate, upVars, kbInfo, response,
                   hist, reports>>

\* await writeFile(localPath, pdfBuffer), line 349
WritePdfReturn(ok) ==
    /\ pc = "writePdf"
    /\ Answer(ok)
    /\ IF ok
       THEN /\ fs' = FsWrite(fs, localPath, <<"pdf-bytes">>)
            /\ retrievalMode' = "pdf"
            /\ retrievalNote' = NoteDownloaded
            /\ cur' = [cur EXCEPT !.written = @ \cup {localPath}]
            /\ BeginUpload
            /\ UNCHANGED localPath
       ELSE /\ CatchAcquire("ENOSPC: write")
            /\ UNCHANGED <<fs, cur, upVars>>
    /\ UNCHANGED <<env, other, works, candidateCache, kbs, filesUploaded, callVars, loopVars, candidate,
                   kbInfo, response, netLog, hist, reports>>

\* await writeFile(localPath, buildAbstractNote(...)), line 354
WriteNoteReturn(ok) ==
    /\ pc = "writeNote"
    /\ Answer(ok)
    /\ IF ok
       THEN /\ fs' = FsWrite(fs, localPath, retrievalNote)
            /\ cur' = [cur EXCEPT !.written = @ \cup {localPath}]
            /\ BeginUpload
            /\ UNCHANGED <<localPath, retrievalMode, retrievalNote>>
       ELSE /\ CatchAcquire("ENOSPC: write")
            /\ UNCHANGED <<fs, cur, upVars>>
    /\ UNCHANGED <<env, other, works, candidateCache, kbs, filesUploaded, callVars, loopVars, candidate,
                   kbInfo, response, netLog, hist, reports>>

\* await writeFile(localPath, buildAbstractNote(...)) in the catch block, line 360
WriteFallbackReturn(ok) ==
    /\ pc = "writeFallback"
    /\ Answer(ok)
    /\ IF ok
       THEN /\ fs' = FsWrite(fs, localPath, retrievalNote)
            /\ cur' = [cur EXCEPT !.written = @ \cup {localPath}]
            /\ BeginUpload
            /\ UNCHANGED response
       ELSE /\ Abort("ENOSPC: write")
            /\ UNCHANGED <<fs, cur, upVars>>
    /\ UNCHANGED <<env, other, works, candidateCache, kbs, filesUploaded, callVars, loopVars, candVars,
                   kbInfo, netLog, hist, reports>>

(***************************************************************************)
(* Upload, poll and cleanup, lines 366-408.                                *)
(***************************************************************************)
\* a successful set that takes every file whose processing did not fail
IsSuccessNotFailed(status) == status # "failed"

\* the status that puts a file in the successful set: line 382
IsSuccess(status) == status = "completed"

\* lines 381-388, after waitForFileProcessed returned `status`
FinishPoll(status, seen) ==
    /\ uploadStatus' = status
    /\ successfulFileIds' =
          IF IsSuccess(status) THEN Append(successfulFileIds, uploadedFileId)
          ELSE successfulFileIds
    /\ uploadError' =
          IF IsSuccess(status) THEN uploadError
          ELSE IF status = "failed" THEN "OpenWebUI processing failed"
          ELSE IF status = "timeout" THEN "OpenWebUI processing timeout"
          ELSE uploadError
    /\ cur' = [cur EXCEPT !.polled = status, !.observed = seen]
    /\ pc' = "unlink"

\* a catch that drops the message of the error
CatchUploadSilent(msg) ==
    /\ uploadError' = uploadError
    /\ pc' = "unlink"

\* the catch of line 389 (cur.threw keeps the message of the error thrown)
CatchUpload(msg) ==
    /\ uploadError' = msg
    /\ pc' = "unlink"

\* uploadFile: await readFile(filePath), line 118 of the client
UploadReadReturn(ioOk) ==
    /\ pc = "uploadRead"
    /\ Answer(ioOk)
    /\ IF localPath \in DOMAIN fs /\ ioOk
       THEN /\ pc' = "uploadPost"
            /\ cur' = [cur EXCEPT !.uploadTried = TRUE]
            /\ UNCHANGED uploadError
       ELSE /\ CatchUpload("ENOENT: open")
            /\ cur' = [cur EXCEPT !.uploadTried = TRUE, !.threw = "ENOENT: open"]
    /\ UNCHANGED <<sharedVars, callVars, loopVars, candVars, uploadedFileId, uploadStatus,
                   now, kbInfo, response, netLog, hist, reports>>

\* uploadFile: await fetch(endpoint, POST), lines 125-142 of the client; on success
\* waitForFileProcessed begins and issues its first status request
UploadPostReturn(ok) ==
    /\ pc = "uploadPost"
    /\ Answer(ok)
    /\ netLog' = Append(netLog, [op |-> "upload", arg |-> localPath, at |-> idx])
    /\ IF ok
       THEN /\ filesUploaded' = filesUploaded + 1
            /\ uploadedFileId' = FileId(filesUploaded + 1)
            /\ cur' = [cur EXCEPT !.assigned = FileId(filesUploaded + 1)]
            /\ now' = 0
            /\ pc' = "status"
            /\ UNCHANGED uploadError
       ELSE /\ CatchUpload("OpenWebUI upload failed: HTTP")
            /\ cur' = [cur EXCEPT !.threw = "OpenWebUI upload failed: HTTP"]
            /\ UNCHANGED <<filesUploaded, uploadedFileId, now>>
    /\ UNCHANGED <<env, other, works, candidateCache, kbs, fs, callVars, loopVars, candVars, uploadStatus,
                   kbInfo, response, hist, reports>>

\* what GET /files/{id}/process/status can answer: a status, none, or an HTTP error
StatusAnswers == {"completed", "failed", "pending", Undefined, "http-error"}

\* getFileProcessStatus: result.status ?? "pending"
getFileProcessStatus(answer) == Coalesce(answer, "pending")

\* a loop that ends on "completed" alone
IsTerminalCompleted(status) == status = "completed"

\* waitForFileProcessed: the status that ends the loop, line 158 of the client
IsTerminal(status) == status = "completed" \/ status = "failed"

\* await this.getFileProcessStatus(fileId), line 157 of the client
StatusReturn(answer) ==
    /\ pc = "status"
    /\ Answer(answer = "completed")
    /\ IF answer = "http-error"
       THEN /\ CatchUpload("OpenWebUI request failed: HTTP")
            /\ cur' = [cur EXCEPT !.threw = "OpenWebUI request failed: HTTP"]
            /\ UNCHANGED <<uploadStatus, successfulFileIds>>
       ELSE IF IsTerminal(getFileProcessStatus(answer))
       THEN FinishPoll(getFileProcessStatus(answer), answer)
       ELSE /\ pc' = "sleep"
            /\ cur' = [cur EXCEPT !.observed = answer]
            /\ UNCHANGED <<uploadStatus, successfulFileIds, uploadError>>
    /\ UNCHANGED <<sharedVars, callVars, idx, processed, candidates, candVars, uploadedFileId,
                   now, kbInfo, response, netLog, hist, reports>>

\* a sleep during which the clock stands still
SleepReturnFrozen(elapsed) ==
    /\ pc = "sleep"
    /\ UNCHANGED <<faults, now>>
    /\ pc' = "status"
    /\ cur' = [cur EXCEPT !.observed = getFileProcessStatus(@)]
    /\ UNCHANGED <<uploadStatus, successfulFileIds, uploadError>>
    /\ UNCHANGED <<sharedVars, callVars, idx, processed, candidates, candVars, uploadedFileId,
                   kbInfo, response, netLog, hist, reports>>

\* await sleep(pollSeconds * 1000), then the loop test Date.now() < deadline
SleepReturn(elapsed) ==
    /\ pc = "sleep"
    /\ UNCHANGED faults
    /\ now' = now + elapsed
    /\ IF now + elapsed < input.fileProcessTimeoutSec
       THEN /\ pc' = "status"
            /\ cur' = [cur EXCEPT !.observed = getFileProcessStatus(@)]
            /\ UNCHANGED <<uploadStatus, successfulFileIds, uploadError>>
       ELSE FinishPoll("timeout", getFileProcessStatus(cur.observed))
    /\ UNCHANGED <<sharedVars, callVars, idx, processed, candidates, candVars, uploadedFileId,
                   kbInfo, response, netLog, hist, reports>>

\* the Ingestion Record of lines 399-407
Record ==
    [openalex_id       |-> candidate.openalexId,
     title             |-> candidate.title,
     retrieval_mode    |-> retrievalMode,
     retrieval_note    |-> retrievalNote,
     openwebui_file_id |-> uploadedFileId,
     openwebui_status  |-> uploadStatus,
     error             |-> uploadError]

\* a cleanup whose failure leaves the finally block as an error of the call
UnlinkReturnThrowing(ok) ==
    /\ pc = "unlink"
    /\ Answer(ok)
    /\ fs' = IF ok /\ localPath \in DOMAIN fs THEN FsUnlink(fs, localPath) ELSE fs
    /\ IF ok
       THEN /\ processed' = Append(processed, Record)
            /\ hist' = Append(hist, [cur EXCEPT !.unlinkTried = localPath,
                                                !.unlinkOk = (localPath \in DOMAIN fs)])
            /\ idx' = idx + 1
            /\ pc' = IF idx + 1 <= Len(selectedIds) THEN "resolve" ELSE "kbSearch"
            /\ UNCHANGED response
       ELSE /\ Abort("ENOENT: unlink")
            /\ UNCHANGED <<processed, hist, idx>>
    /\ candidate' = NoCandidate
    /\ localPath' = NoPath
    /\ retrievalMode' = "abstract-only"
    /\ retrievalNote' = NoteUnavailable
    /\ uploadedFileId' = NullId
    /\ uploadStatus' = "failed"
    /\ uploadError' = Null
    /\ now' = 0
    /\ cur' = FreshCur
    /\ UNCHANGED <<env, other, works, candidateCache, kbs, filesUploaded, callVars,
                   successfulFileIds, candidates, kbInfo, netLog, reports>>

\* finally { await unlink(localPath) }, then the record is pushed, the variables of
\* the loop body go out of scope, and the loop goes on, or ends and
\* getOrCreateKnowledgeBase issues its search
UnlinkReturn(ok) ==
    /\ pc = "unlink"
    /\ Answer(ok)
    /\ fs' = IF ok /\ localPath \in DOMAIN fs THEN FsUnlink(fs, localPath) ELSE fs
    /\ processed' = Append(processed, Record)
    /\ hist' = Append(hist, [cur EXCEPT !.unlinkTried = localPath,
                                        !.unlinkOk = (ok /\ localPath \in DOMAIN fs)])
    /\ idx' = idx + 1
    /\ pc' = IF idx + 1 <= Len(selectedIds) THEN "resolve" ELSE "kbSearch"
    /\ candidate' = NoCandidate
    /\ localPath' = NoPath
    /\ retrievalMode' = "abstract-only"
    /\ retrievalNote' = NoteUnavailable
    /\ uploadedFileId' = NullId
    /\ uploadStatus' = "failed"
    /\ uploadError' = Null
    /\ now' = 0
    /\ cur' = FreshCur
    /\ UNCHANGED <<env, other, works, candidateCache, kbs, filesUploaded, callVars, successfulFileIds,
                   candidates, kbInfo, response, netLog, reports>>

(***************************************************************************)
(* The knowledge base: getOrCreateKnowledgeBase, addFilesToKnowledgeBase   *)
(* and the report, lines 410-449.                                          *)
(***************************************************************************)
\* GET /api/v1/knowledge/search?query=: the bases whose name contains the query,
\* letter case ignored
searchKnowledgeBases(bases, query) ==
    {kb \in bases : Includes(ToLowerCase(kb.name), ToLowerCase(query))}

\* the test of found.find(...), line 104 of the client
NameMatches(kb, name) == ToLowerCase(Trim(kb.name)) = ToLowerCase(Trim(name))

\* the access_control sent by createKnowledgeBase, line 94 of the client
AccessControlSent(makePublic) == IF makePublic THEN Null ELSE "restricted"

\* the access_control a created base comes back with: the server may downgrade
\* a public request, or leave the field out
AccessControlServed(sent) ==
    IF sent = Null THEN {Null, "restricted", Undefined} ELSE {"restricted"}

\* a test that takes a base without the field for public
IsPublicOrAbsent(kb) == kb.access_control \in {Null, Undefined}

\* line 420
IsPublic(kb) == kb.access_control = Null

\* lines 421-424
Warning(makePublic, isPublic) ==
    IF makePublic /\ ~isPublic
    THEN "Knowledge base is not publicly readable due to current OpenWebUI permissions."
    ELSE Null

\* the structured report of lines 426-449
Report(info) ==
    [isError |-> FALSE,
     knowledge_base |->
        [id |-> info.knowledgeBase.id,
         name |-> info.knowledgeBase.name,
         created |-> info.created,
         requested_public |-> input.makePublic,
         actual_public |-> IsPublic(info.knowledgeBase)],
     uploaded_success_count |-> Len(successfulFileIds),
     uploaded_failed_count |-> Len(processed) - Len(successfulFileIds),
     warning |-> Warning(input.makePublic, IsPublic(info.knowledgeBase)),
     results |-> processed]

ReturnReport(info) ==
    /\ pc' = "returned"
    /\ response' = Report(info)
    /\ reports' = Append(reports, [requested |-> input.knowledgeBaseName,
                                   id |-> info.knowledgeBase.id,
                                   created |-> info.created])

\* an attach that is sent whatever the successful set holds
AfterKnowledgeBaseAlwaysAttach(info) ==
    /\ kbInfo' = info
    /\ pc' = "attach"
    /\ UNCHANGED <<response, reports>>

\* lines 416-418: attach when some file succeeded, else return the report
AfterKnowledgeBase(info) ==
    /\ kbInfo' = info
    /\ IF Len(successfulFileIds) > 0
       THEN /\ pc' = "attach"
            /\ UNCHANGED <<response, reports>>
       ELSE ReturnReport(info)

\* getOrCreateKnowledgeBase: await this.searchKnowledgeBases(params.name)
KbSearchReturn(ok, exact) ==
    /\ pc = "kbSearch"
    /\ Answer(ok)
    /\ netLog' = Append(netLog, [op |-> "kbSearch", arg |-> input.knowledgeBaseName, at |-> idx])
    /\ LET found == searchKnowledgeBases(kbs, input.knowledgeBaseName)
           matches == {kb \in found : NameMatches(kb, input.knowledgeBaseName)}
       IN  IF ~ok
           THEN /\ exact = NoKbInfo
                /\ Abort("OpenWebUI request failed: HTTP")
                /\ UNCHANGED <<kbInfo, reports>>
           ELSE IF matches # {}
           THEN /\ exact \in matches
                /\ AfterKnowledgeBase([knowledgeBase |-> exact, created |-> FALSE])
           ELSE /\ exact = NoKbInfo
                /\ pc' = "kbCreate"
                /\ UNCHANGED <<kbInfo, response, reports>>
    /\ UNCHANGED <<sharedVars, callVars, loopVars, candVars, upVars, cur, hist>>

\* getOrCreateKnowledgeBase: await this.createKnowledgeBase(params)
KbCreateReturn(ok, served) ==
    /\ pc = "kbCreate"
    /\ Answer(ok)
    /\ netLog' = Append(netLog, [op |-> "kbCreate", arg |-> input.knowledgeBaseName, at |-> idx])
    /\ IF ok
       THEN LET created == [id |-> KbId(Cardinality(kbs) + 1),
                            name |-> input.knowledgeBaseName,
                            access_control |-> served]
            IN  /\ served \in AccessControlServed(AccessControlSent(input.makePublic))
                /\ kbs' = kbs \cup {created}
                /\ AfterKnowledgeBase([knowledgeBase |-> created, created |-> TRUE])
       ELSE /\ served = Null
            /\ Abort("OpenWebUI request failed: HTTP")
            /\ UNCHANGED <<kbs, kbInfo, reports>>
    /\ UNCHANGED <<env, other, works, candidateCache, filesUploaded, fs, callVars, loopVars, candVars,
                   upVars, cur, hist>>

\* await openWebUI.addFilesToKnowledgeBase(kbInfo.knowledgeBase.id, successfulFileIds)
AttachReturn(ok) ==
    /\ pc = "attach"
    /\ Answer(ok)
    /\ netLog' = Append(netLog, [op |-> "attach", at |-> idx,
                                 arg |-> <<kbInfo.knowledgeBase.id, successfulFileIds>>])
    /\ IF ok
       THEN ReturnReport(kbInfo)
       ELSE /\ Abort("OpenWebUI request failed: HTTP")
            /\ UNCHANGED reports
    /\ UNCHANGED <<sharedVars, callVars, loopVars, candVars, upVars, kbInfo, cur, hist>>

(***************************************************************************)
(* The search and the screen tools, and the call of a tool the server does *)
(* not have: searchCandidatesTool, screenCandidatesTool, and the default   *)
(* branch of the CallToolRequestSchema handler.                            *)
(***************************************************************************)
\* the variables local to a call are those of the new call
ResetLocals ==
    /\ selectedIds' = <<>>
    /\ idx' = 1
    /\ processed' = <<>>
    /\ successfulFileIds' = <<>>
    /\ candidates' = <<>>
    /\ candidate' = NoCandidate
    /\ localPath' = NoPath
    /\ retrievalMode' = "abstract-only"
    /\ retrievalNote' = NoteUnavailable
    /\ uploadedFileId' = NullId
    /\ uploadStatus' = "failed"
    /\ uploadError' = Null
    /\ now' = 0
    /\ kbInfo' = NoKbInfo
    /\ netLog' = <<>>
    /\ cur' = FreshCur
    /\ hist' = <<>>

\* searchCandidatesSchema.parse succeeds
SearchSchemaOk(args) == Len(args.query) >= 2

MaxScreenIds == 100

\* screenCandidatesSchema.parse succeeds; the threshold is a number of hundredths
ScreenSchemaOk(args) ==
    /\ Len(args.query) >= 2
    /\ Len(args.candidateIds) >= 1
    /\ Len(args.candidateIds) <= MaxScreenIds
    /\ \A i \in 1..Len(args.candidateIds) : Len(args.candidateIds[i]) >= 1
    /\ args.threshold >= 0
    /\ args.threshold <= 100

\* Number(x.toFixed(3)), in thousandths
ToFixed3(score) == (2000 * score.num + score.den) \div (2 * score.den)

formatCandidate(cand) ==
    [openalex_id |-> cand.openalexId,
     title |-> cand.title,
     is_oa |-> cand.isOa,
     pdf_url |-> cand.pdfUrl,
     relevance_score |-> ToFixed3(cand.relevanceScore),
     relevance_reasons |-> cand.relevanceReasons]

FormatAll(cands) == [i \in DOMAIN cands |-> formatCandidate(cands[i])]

\* the place of cand in a list sorted by falling score: behind every entry whose
\* score is not smaller (Array.prototype.sort is stable)
RECURSIVE InsertRanked(_, _)
InsertRanked(ranked, cand) ==
    IF ranked = <<>> THEN <<cand>>
    ELSE IF ScoreGreater(cand.relevanceScore, Head(ranked).relevanceScore)
         THEN <<cand>> \o ranked
         ELSE <<Head(ranked)>> \o InsertRanked(Tail(ranked), cand)

\* [...result.candidates].sort((a, b) => b.relevanceScore - a.relevanceScore)
RECURSIVE SortByScore(_)
SortByScore(cands) ==
    IF cands = <<>> THEN <<>>
    ELSE InsertRanked(SortByScore(SubSeq(cands, 1, Len(cands) - 1)), cands[Len(cands)])

\* ranked.forEach(cacheCandidate)
RECURSIVE CacheAll(_, _)
CacheAll(cache, cands) ==
    IF cands = <<>> THEN cache
    ELSE CacheAll(cacheCandidate(cache, Head(cands)), Tail(cands))

SearchReport(ranked, total) ==
    [isError |-> FALSE,
     query |-> input.query,
     total_hits |-> total,
     returned |-> Len(ranked),
     candidates |-> FormatAll(ranked)]

SearchStart(args) ==
    /\ pc \in {"idle", "returned"}
    /\ callNo' = callNo + 1
    /\ request' = [name |-> "search_paper_candidates", arguments |-> args]
    /\ ResetLocals
    /\ IF SearchSchemaOk(args)
       THEN /\ input' = args
            /\ pc' = "searchWorks"
            /\ response' = NoResponse
       ELSE /\ input' = NoInput
            /\ Abort("ZodError")
    /\ UNCHANGED <<sharedVars, faults, reports>>

\* await openAlexClient.searchWorks(...): the index answers with the works
\* `found`, each is made a candidate scored against the query; then the sort,
\* the caching and the report
SearchReturn(ok, found) ==
    /\ pc = "searchWorks"
    /\ Answer(ok)
    /\ netLog' = Append(netLog, [op |-> "searchWorks", arg |-> input.query, at |-> 0])
    /\ IF ok
       THEN \E ranked \in {SortByScore([i \in DOMAIN found |->
                                toCandidate(CanonicalPrefix \o found[i], works[found[i]],
                                            input.query)])} :
                /\ candidateCache' = CacheAll(candidateCache, ranked)
                /\ response' = SearchReport(ranked, Len(found))
                /\ pc' = "returned"
       ELSE /\ found = <<>>
            /\ Abort("OpenAlex request failed: HTTP")
            /\ UNCHANGED candidateCache
    /\ UNCHANGED <<env, other, works, kbs, filesUploaded, fs, callVars, loopVars, candVars, upVars,
                   kbInfo, cur, hist, reports>>

\* a test that leaves a score equal to the threshold out
IsRelevantAbove(cand, threshold) ==
    cand.relevanceScore.num * 100 > threshold * cand.relevanceScore.den

\* item.relevanceScore >= input.threshold, line 298
IsRelevant(cand, threshold) == ScoreAtLeast(cand.relevanceScore, threshold)

\* item.relevanceScore < input.threshold, line 299
IsIrrelevant(cand, threshold) ==
    cand.relevanceScore.num * 100 < threshold * cand.relevanceScore.den

\* Array.prototype.filter with the test of line 298
RECURSIVE FilterRelevant(_, _)
FilterRelevant(cands, threshold) ==
    IF cands = <<>> THEN <<>>
    ELSE (IF IsRelevant(Head(cands), threshold) THEN <<Head(cands)>> ELSE <<>>)
         \o FilterRelevant(Tail(cands), threshold)

\* Array.prototype.filter with the test of line 299
RECURSIVE FilterIrrelevant(_, _)
FilterIrrelevant(cands, threshold) ==
    IF cands = <<>> THEN <<>>
    ELSE (IF IsIrrelevant(Head(cands), threshold) THEN <<Head(cands)>> ELSE <<>>)
         \o FilterIrrelevant(Tail(cands), threshold)

ScreenReport(all) ==
    [isError |-> FALSE,
     query |-> input.query,
     threshold |-> input.threshold,
     relevant_count |-> Len(FilterRelevant(all, input.threshold)),
     irrelevant_count |-> Len(FilterIrrelevant(all, input.threshold)),
     relevant |-> FormatAll(FilterRelevant(all, input.threshold)),
     irrelevant |-> FormatAll(FilterIrrelevant(all, input.threshold))]

ScreenStart(args) ==
    /\ pc \in {"idle", "returned"}
    /\ callNo' = callNo + 1
    /\ request' = [name |-> "screen_paper_candidates", arguments |-> args]
    /\ ResetLocals
    /\ IF ScreenSchemaOk(args)
       THEN /\ input' = args
            /\ pc' = "screenResolve"
            /\ response' = NoResponse
       ELSE /\ input' = NoInput
            /\ Abort("ZodError")
    /\ UNCHANGED <<sharedVars, faults, reports>>

\* lines 290-295 on the candidate cand, resolved against the cache `cache`, and
\* the loop going on to the next id, or ending with the report (\E over a set of
\* one element names a value that is computed once)
Rescore(cand, cache) ==
    \E relevance \in {computeRelevanceScore(input.query, cand.title, cand.abstract)} :
    \E rescored \in {[cand EXCEPT !.relevanceScore = relevance.score,
                                  !.relevanceReasons = relevance.reasons]} :
    \E all \in {Append(candidates, rescored)} :
        /\ candidateCache' = cacheCandidate(cache, rescored)
        /\ candidates' = all
        /\ idx' = idx + 1
        /\ IF idx + 1 <= Len(input.candidateIds)
           THEN /\ pc' = "screenResolve"
                /\ UNCHANGED response
           ELSE /\ pc' = "returned"
                /\ response' = ScreenReport(all)

\* resolveCandidate(id, input.query) up to its await
ScreenResolve ==
    /\ pc = "screenResolve"
    /\ LET idInfo == normalizeOpenAlexId(input.candidateIds[idx])
       IN  IF Throws(idInfo)
           THEN /\ Abort(idInfo.throw)
                /\ UNCHANGED <<candidateCache, candidates, idx>>
           ELSE IF CacheLookup(candidateCache, idInfo) # NoCandidate
           THEN Rescore(CacheLookup(candidateCache, idInfo), candidateCache)
           ELSE /\ pc' = "screenGetWork"
                /\ UNCHANGED <<candidateCache, candidates, idx, response>>
    /\ UNCHANGED <<env, other, works, kbs, filesUploaded, fs, callVars, processed, successfulFileIds,
                   candVars, upVars, faults, kbInfo, netLog, cur, hist, reports>>

\* await openAlexClient.getWork(canonical, query), then cacheCandidate and the
\* rest of the loop body
ScreenGetWorkReturn(ok) ==
    /\ pc = "screenGetWork"
    /\ Answer(ok)
    /\ LET idInfo == normalizeOpenAlexId(input.candidateIds[idx])
       IN  /\ netLog' = Append(netLog, [op |-> "getWork", arg |-> idInfo.short, at |-> idx])
           /\ IF ok
              THEN \E fetched \in {toCandidate(idInfo.canonical, works[idInfo.short],
                                                 input.query)} :
                       Rescore(fetched, cacheCandidate(candidateCache, fetched))
              ELSE /\ Abort("OpenAlex request failed: HTTP")
                   /\ UNCHANGED <<candidateCache, candidates, idx>>
    /\ UNCHANGED <<env, other, works, kbs, filesUploaded, fs, callVars, processed, successfulFileIds,
                   candVars, upVars, kbInfo, cur, hist, reports>>

\* the default branch of the switch, line 93
UnknownTool(name) ==
    /\ pc \in {"idle", "returned"}
    /\ callNo' = callNo + 1
    /\ request' = [name |-> name, arguments |-> <<>>]
    /\ ResetLocals
    /\ input' = NoInput
    /\ Abort("Unknown tool: " \o name)
    /\ UNCHANGED <<sharedVars, faults, reports>>

(***************************************************************************)
(* The specification: tool calls one after the other.                      *)
(***************************************************************************)
Steps ==
    \/ \E ok \in BOOLEAN : MkdirReturn(ok)
    \/ Resolve
    \/ \E ok \in BOOLEAN : GetWorkReturn(ok)
    \/ \E resp \in DownloadResponses : DownloadReturn(resp)
    \/ \E ok \in BOOLEAN : WritePdfReturn(ok)
    \/ \E ok \in BOOLEAN : WriteNoteReturn(ok)
    \/ \E ok \in BOOLEAN : WriteFallbackReturn(ok)
    \/ \E ioOk \in BOOLEAN : UploadReadReturn(ioOk)
    \/ \E ok \in BOOLEAN : UploadPostReturn(ok)
    \/ \E answer \in StatusAnswers : StatusReturn(answer)
    \/ \E elapsed \in 1..MaxPolls : SleepReturn(elapsed)
    \/ \E ok \in BOOLEAN : UnlinkReturn(ok)
    \/ \E ok \in BOOLEAN, exact \in kbs \cup {NoKbInfo} : KbSearchReturn(ok, exact)
    \/ \E ok \in BOOLEAN, served \in {Null, "restricted", Undefined} : KbCreateReturn(ok, served)
    \/ \E ok \in BOOLEAN : AttachReturn(ok)

\* one tool call
Next ==
    \/ callNo < 1 /\ \E args \in IngestArgs(kbs) : IngestStart(args)
    \/ Steps

Spec == Init /\ [][Next]_vars

\* tool calls one after the other, each for one candidate
NextSeq ==
    \/ callNo < MaxCalls /\ \E args \in SeqArgs : IngestStart(args)
    \/ Steps

SpecSeq == Init /\ [][NextSeq]_vars

(***************************************************************************)
(* The specification of the three tools: calls of the search, the screen   *)
(* and the ingest tool, and of a tool the server does not have, one after  *)
(* the other, against an index that holds W1 and W2.                       *)
(***************************************************************************)
\* "w1" and "w1 w2": the title of W1 holds the first, the title of no work the second
Queries == {<<"w", "1">>, <<"w", "1", " ", "w", "2">>}

\* a query the schemas reject: one character
ShortQuery == <<"w">>

SearchArgs == [query : {<<"w", "1">>, ShortQuery}]

\* the threshold of the screen calls, in hundredths: the score of a work whose
\* title holds one of the two words of "w1 w2"
Thresholds == {40}

\* the screen calls: lists of MaxIds ids that begin with W1, W1 more than once
\* among them
ScreenArgs ==
    [query : Queries,
     candidateIds : {ids \in SeqsUpTo({<<"W", "1">>, <<"W", "2">>}, MaxIds) :
                        Len(ids) = MaxIds /\ ids[1] = <<"W", "1">>},
     threshold : Thresholds]

\* the ingest calls among the calls of the tools: one candidate each; one call
\* the schema rejects, one whose address is blank
ToolIngestArgs ==
    [candidateIds : {<<<<"W", "1">>>>, <<<<"W", "2">>>>},
     maxPapers : {1},
     makePublic : {TRUE},
     knowledgeBaseName : {<<"a">>},
     fileProcessTimeoutSec : {1},
     openwebuiBaseUrl : {UndefinedT},
     openwebuiApiKey : {UndefinedT}]
    \cup
    [candidateIds : {<<<<"W", "1">>>>},
     maxPapers : {0, 1},
     makePublic : {TRUE},
     knowledgeBaseName : {<<"a">>},
     fileProcessTimeoutSec : {1},
     openwebuiBaseUrl : {<<" ">>},
     openwebuiApiKey : {UndefinedT}]

UnknownNames == {"delete_paper"}

\* what the index may answer a search with: W2, or W1 and W2 in either order
SearchAnswers ==
    {<<<<"W", "2">>>>, <<<<"W", "1">>, <<"W", "2">>>>, <<<<"W", "2">>, <<"W", "1">>>>}

\* the steps of a running search or screen call
ToolSteps ==
    \/ \E ok \in BOOLEAN, found \in SearchAnswers : SearchReturn(ok, found)
    \/ ScreenResolve
    \/ \E ok \in BOOLEAN : ScreenGetWorkReturn(ok)

\* the server is configured, holds no knowledge base, and the index holds an
\* open-access W1 with a PDF and a W2 without one
InitTools ==
    /\ Init
    /\ env.url # UndefinedT
    /\ kbs = {}
    /\ works[<<"W", "1">>] = OaWithPdf

NextTools ==
    \/ /\ callNo < MaxCalls
       /\ \/ \E args \in SearchArgs : SearchStart(args)
          \/ \E args \in ScreenArgs : ScreenStart(args)
          \/ \E args \in ToolIngestArgs : IngestStart(args)
          \/ \E name \in UnknownNames : UnknownTool(name)
    \/ Steps
    \/ ToolSteps

SpecTools == InitTools /\ [][NextTools]_vars

(***************************************************************************)
(* The specification of the poll against a server that never reports      *)
(* "completed" or "failed": one ingest call for one candidate, every other *)
(* request and file operation succeeds, every status request returns and   *)
(* every sleep ends.                                                       *)
(***************************************************************************)
(***************************************************************************)
(* The specification of the tools against an index that is edited while    *)
(* the server runs: the record the index serves for a work may be replaced *)
(* between two requests.                                                   *)
(***************************************************************************)
(***************************************************************************)
(* The specification of the reports: one ingest call for the two works of  *)
(* the index, every request and file operation of which may fail.          *)
(***************************************************************************)
RecordArgs ==
    [candidateIds : {<<<<"W", "1">>, <<"W", "2">>>>},
     maxPapers : {MaxIds},
     makePublic : BOOLEAN,
     knowledgeBaseName : {<<"a">>},
     fileProcessTimeoutSec : {MaxPolls},
     openwebuiBaseUrl : {UndefinedT},
     openwebuiApiKey : {UndefinedT}]

NextRecords ==
    \/ callNo < 1 /\ \E args \in RecordArgs : IngestStart(args)
    \/ Steps

SpecRecords == InitTools /\ [][NextRecords]_vars

\* OpenAlex replaces the records it holds
IndexUpdate(db) ==
    /\ works # db
    /\ works' = db
    /\ UNCHANGED <<env, other, candidateCache, kbs, filesUploaded, fs, callVars, pc, loopVars, candVars,
                   upVars, faults, kbInfo, response, netLog, cur, hist, reports>>

NextDrift ==
    \/ NextTools
    \/ \E db \in WorkDbs : IndexUpdate(db)

SpecDrift == InitTools /\ [][NextDrift]_vars

(***************************************************************************)
(* The specification of the identifier forms: search, screen and ingest    *)
(* calls that name the work W1 as a raw id, in lower case and as a URL.    *)
(***************************************************************************)
\* the forms of the id W1
FormsOfW1 == {<<"W", "1">>, <<"w", "1">>, CanonicalPrefix \o <<"W", "1">>}

\* screen calls for two ids: a form of W1, then a form of W1 or W2
FormScreenArgs ==
    [query : {<<"w", "1">>, <<"w", "2">>},
     candidateIds : {<<first, second>> :
                        first \in FormsOfW1, second \in FormsOfW1 \cup {<<"W", "2">>}},
     threshold : {40}]

\* ingest calls for one candidate, a form of W1 or W2
FormIngestArgs ==
    [candidateIds : {<<form>> : form \in FormsOfW1 \cup {<<"W", "2">>}},
     maxPapers : {1},
     makePublic : {TRUE},
     knowledgeBaseName : {<<"a">>},
     fileProcessTimeoutSec : {1},
     openwebuiBaseUrl : {UndefinedT},
     openwebuiApiKey : {UndefinedT}]

NextForms ==
    \/ /\ callNo < MaxCalls
       /\ \/ \E args \in SearchArgs : SearchStart(args)
          \/ \E args \in FormScreenArgs : ScreenStart(args)
          \/ \E args \in FormIngestArgs : IngestStart(args)
    \/ Steps
    \/ ToolSteps

SpecForms == InitTools /\ [][NextForms]_vars

\* the answers of a server that is still processing the file
PendingAnswers == {"pending", Undefined}

\* the calls: one candidate, the deadline varies
PollArgs ==
    [candidateIds : {<<<<"W", "1">>>>},
     maxPapers : {1},
     makePublic : {TRUE},
     knowledgeBaseName : {<<"a">>},
     fileProcessTimeoutSec : 1..Min(MaxPolls, MaxFaults),
     openwebuiBaseUrl : {UndefinedT},
     openwebuiApiKey : {UndefinedT}]

\* a response that tryDownloadPdf accepts
PdfResponse ==
    [transport |-> TRUE, ok |-> TRUE, status |-> "200", contentLength |-> 10,
     bodyLen |-> 10, contentType |-> FALSE, signature |-> "%PDF"]

InitPoll == Init /\ env.url # UndefinedT

NextPoll ==
    \/ callNo < 1 /\ \E args \in PollArgs : IngestStart(args)
    \/ MkdirReturn(TRUE)
    \/ Resolve
    \/ GetWorkReturn(TRUE)
    \/ DownloadReturn(PdfResponse)
    \/ WritePdfReturn(TRUE)
    \/ WriteNoteReturn(TRUE)
    \/ UploadReadReturn(TRUE)
    \/ UploadPostReturn(TRUE)
    \/ \E answer \in PendingAnswers : StatusReturn(answer)
    \/ \E elapsed \in 1..MaxPolls : SleepReturn(elapsed)
    \/ UnlinkReturn(TRUE)
    \/ \E exact \in kbs \cup {NoKbInfo} : KbSearchReturn(TRUE, exact)
    \/ \E served \in {Null, "restricted", Undefined} : KbCreateReturn(TRUE, served)

\* every status request returns, and the clock advances
SpecPoll ==
    /\ InitPoll
    /\ [][NextPoll]_vars
    /\ WF_vars(\E answer \in PendingAnswers : StatusReturn(answer))
    /\ WF_vars(\E elapsed \in 1..MaxPolls : SleepReturn(elapsed))

(***************************************************************************)
(* The specification of overlapping calls: two ingest calls for the same   *)
(* candidate and the same knowledge base name.  The handler of a call runs *)
(* until its next await; while it waits, the handler of the other call may *)
(* run.                                                                    *)
(***************************************************************************)
\* the calls: one candidate each, W1 with its PDF or W2 without one
OverlapArgs ==
    [candidateIds : {<<<<"W", "1">>>>, <<<<"W", "2">>>>},
     maxPapers : {1},
     makePublic : {TRUE},
     knowledgeBaseName : {<<"a">>},
     fileProcessTimeoutSec : {1},
     openwebuiBaseUrl : {UndefinedT},
     openwebuiApiKey : {UndefinedT}]

\* the running call is suspended at an await, or has not begun, or has returned
AtAwait(at) == at # "resolve"

\* the event loop goes on with the other call
Switch ==
    /\ AtAwait(pc)
    /\ {pc, other.pc} \notin SUBSET {"idle", "returned"}
    /\ other' = Context
    /\ request' = other.request
    /\ pc' = other.pc
    /\ input' = other.input
    /\ selectedIds' = other.selectedIds
    /\ idx' = other.idx
    /\ processed' = other.processed
    /\ successfulFileIds' = other.successfulFileIds
    /\ candidates' = other.candidates
    /\ candidate' = other.candidate
    /\ localPath' = other.localPath
    /\ retrievalMode' = other.retrievalMode
    /\ retrievalNote' = other.retrievalNote
    /\ uploadedFileId' = other.uploadedFileId
    /\ uploadStatus' = other.uploadStatus
    /\ uploadError' = other.uploadError
    /\ now' = other.now
    /\ kbInfo' = other.kbInfo
    /\ response' = other.response
    /\ netLog' = other.netLog
    /\ cur' = other.cur
    /\ hist' = other.hist
    /\ UNCHANGED <<env, works, candidateCache, kbs, filesUploaded, fs, callNo, faults, reports>>

NextOverlap ==
    \/ callNo < 2 /\ pc = "idle" /\ \E args \in OverlapArgs : IngestStart(args)
    \/ Steps
    \/ Switch

SpecOverlap == InitTools /\ [][NextOverlap]_vars

(***************************************************************************)
(* The specification of the pure functions: normalizeOpenAlexId and        *)
(* computeRelevanceScore, applied to inputs drawn at the start.            *)
(***************************************************************************)
\* longest raw id built from IdChars
MaxLen == 3

IdChars == {"W", "w", "1", "2", "x"}

\* "not-an-id"
NotAnId ==
    <<"n", "o", "t", "-", "a", "n", "-", "i", "d">>

\* the raw ids: the short strings, the empty one among them, a string that holds
\* no work id, and the address of a work written in lower case
RawIds ==
    SeqsUpTo(IdChars, MaxLen) \cup {NotAnId, CanonicalPrefix \o <<"w", "1", "2">>}

\* "graph neural network"
ExampleQuery ==
    <<"g", "r", "a", "p", "h", " ", "n", "e", "u", "r", "a", "l", " ", "n", "e", "t",
      "w", "o", "r", "k">>

\* "Graph Neural Networks for Protein Function"
ExampleTitle ==
    <<"G", "r", "a", "p", "h", " ", "N", "e", "u", "r", "a", "l", " ", "N", "e", "t",
      "w", "o", "r", "k", "s", " ", "f", "o", "r", " ", "P", "r", "o", "t", "e", "i",
      "n", " ", "F", "u", "n", "c", "t", "i", "o", "n">>

\* the inputs of computeRelevanceScore: the example, the query as a title, a
\* title in other words, an abstract that is not empty, a query of no token
ScoreInputs ==
    [query : {ExampleQuery}, title : {ExampleTitle, ExampleQuery, NotAnId},
     abstract : {<<>>, <<"a">>}]
    \cup [query : {<<"-">>}, title : {ExampleTitle}, abstract : {<<>>}]

(***************************************************************************)
(* sanitizeFilename(input, maxLen = 120).  A character outside the ASCII   *)
(* range is written by its name: "e-acute" is decomposed by NFKD into "e"  *)
(* and the combining accent, "cjk" has no decomposition.                   *)
(***************************************************************************)
SanitizeMaxLen == 120

Capitals ==
    {"A", "B", "C", "D", "E", "F", "G", "H", "I", "J", "K", "L", "M",
     "N", "O", "P", "Q", "R", "S", "T", "U", "V", "W", "X", "Y", "Z"}

\* [a-zA-Z0-9._ -]
IsFileChar(c) == c \in Letters \cup Capitals \cup Numbers \cup {".", "_", " ", "-"}

\* [\x00-\x7F], as far as the strings of the model go
IsAscii(c) == IsFileChar(c) \/ c \in {"?", ":", "/", "tab"}

\* input.normalize("NFKD"), one half of the string after the other
RECURSIVE Nfkd(_)
Nfkd(s) ==
    IF s = <<>> THEN <<>>
    ELSE IF Len(s) = 1
    THEN (IF s[1] = "e-acute" THEN <<"e", "combining-acute">> ELSE s)
    ELSE Nfkd(SubSeq(s, 1, Len(s) \div 2)) \o Nfkd(SubSeq(s, Len(s) \div 2 + 1, Len(s)))

\* a blank that follows a blank
IsRepeatedBlank(pair) == pair[1] = " " /\ pair[2] = " "

\* s.replace(/\s+/g, " ") on a string whose only white space is the blank
CollapseBlanks(s) ==
    LET withPrevious == [i \in 1..Len(s) |-> <<s[i], IF i > 1 THEN s[i - 1] ELSE "">>]
        kept == SelectSeq(withPrevious, LAMBDA pair : ~IsRepeatedBlank(pair))
    IN  [i \in 1..Len(kept) |-> kept[i][1]]

sanitizeFilename(in) ==
    LET stripped == SelectSeq(Nfkd(in), IsAscii)
        replaced == [i \in 1..Len(stripped) |->
                        IF IsFileChar(stripped[i]) THEN stripped[i] ELSE "_"]
        ascii    == Trim(CollapseBlanks(replaced))
        safe     == IF Len(ascii) > 0 THEN ascii ELSE <<"p", "a", "p", "e", "r">>
        cut      == Trim(SubSeq(safe, 1, Min(Len(safe), SanitizeMaxLen)))
    IN  [i \in 1..Len(cut) |-> IF cut[i] = " " THEN "_" ELSE cut[i]]

\* `${candidate.title}_${candidate.openalexShortId}`, sanitized
baseName(cand) == sanitizeFilename(cand.title \o <<"_">> \o cand.openalexShortId)

\* a title of n letters
LongTitle(n) == [i \in 1..n |-> "a"]

\* titles that leave room for the short id within maxLen, and titles that do not
FileTitles ==
    {<<"a", " ", "b">>, <<"a", "?", " ", " ", "e-acute">>, <<"cjk">>,
     LongTitle(SanitizeMaxLen - 3), LongTitle(SanitizeMaxLen)}

FileCandidates ==
    [title : FileTitles, openalexShortId : {<<"W", "1">>, <<"W", "2">>, <<"W", "1", "2">>}]

\* the exchanges with a PDF host: the fetch rejects, or it answers with a status,
\* a declared content length (0 when the header is missing), a body of some
\* length, a content type that names PDF or not, and the first four bytes
DownloadExchanges ==
    {[transport |-> FALSE, ok |-> FALSE, status |-> "0", contentLength |-> 0,
      bodyLen |-> 0, contentType |-> FALSE, signature |-> ""]}
    \cup [transport : {TRUE}, ok : {FALSE}, status : {"404"},
          contentLength : {0, 10}, bodyLen : {10},
          contentType : BOOLEAN, signature : {"%PDF", "<htm"}]
    \cup [transport : {TRUE}, ok : {TRUE}, status : {"200"},
          contentLength : {0, 10, MaxPdfBytes, MaxPdfBytes + 1},
          bodyLen : {10, MaxPdfBytes, MaxPdfBytes + 1},
          contentType : BOOLEAN, signature : {"%PDF", "<htm"}]

PureRequests ==
    {[name |-> "normalizeOpenAlexId", arguments |-> raw] : raw \in RawIds}
    \cup {[name |-> "computeRelevanceScore", arguments |-> in] : in \in ScoreInputs}
    \cup {[name |-> "tryDownloadPdf", arguments |-> resp] : resp \in DownloadExchanges}
    \cup {[name |-> "baseName", arguments |-> <<c1, c2>>] : c1, c2 \in FileCandidates}

\* the server before its first call, and the input of the function
InitPure ==
    /\ env = [url |-> <<"h">>, key |-> <<"k">>]
    /\ works = (<<"W", "1">> :> OaWithPdf) @@ (<<"W", "2">> :> OaEmptyUrl)
    /\ candidateCache = <<>>
    /\ kbs = {}
    /\ filesUploaded = 0
    /\ fs = <<>>
    /\ callNo = 0
    /\ request \in PureRequests
    /\ pc = "idle"
    /\ input = NoInput
    /\ selectedIds = <<>>
    /\ idx = 1
    /\ processed = <<>>
    /\ successfulFileIds = <<>>
    /\ candidates = <<>>
    /\ candidate = NoCandidate
    /\ localPath = NoPath
    /\ retrievalMode = "abstract-only"
    /\ retrievalNote = NoteUnavailable
    /\ uploadedFileId = NullId
    /\ uploadStatus = "failed"
    /\ uploadError = Null
    /\ now = 0
    /\ faults = 0
    /\ kbInfo = NoKbInfo
    /\ response = NoResponse
    /\ netLog = <<>>
    /\ cur = FreshCur
    /\ hist = <<>>
    /\ reports = <<>>
    /\ other = NoCall

\* normalizeOpenAlexId(raw); the error thrown is kept as the result
Normalize ==
    /\ pc = "idle"
    /\ request.name = "normalizeOpenAlexId"
    /\ response' = normalizeOpenAlexId(request.arguments)
    /\ pc' = "evaluated"
    /\ UNCHANGED <<sharedVars, callVars, loopVars, candVars, upVars, faults, kbInfo, netLog,
                   cur, hist, reports>>

\* normalizeOpenAlexId applied to the canonical or to the short form it returned
NormalizeAgain(form) ==
    /\ pc = "evaluated"
    /\ request.name = "normalizeOpenAlexId"
    /\ ~Throws(response)
    /\ response' = [first |-> response, form |-> form,
                    again |-> normalizeOpenAlexId(response[form])]
    /\ pc' = "evaluatedAgain"
    /\ UNCHANGED <<sharedVars, callVars, loopVars, candVars, upVars, faults, kbInfo, netLog,
                   cur, hist, reports>>

\* computeRelevanceScore(query, title, abstract)
Score ==
    /\ pc = "idle"
    /\ request.name = "computeRelevanceScore"
    /\ response' = computeRelevanceScore(request.arguments.query, request.arguments.title,
                                         request.arguments.abstract)
    /\ pc' = "evaluated"
    /\ UNCHANGED <<sharedVars, callVars, loopVars, candVars, upVars, faults, kbInfo, netLog,
                   cur, hist, reports>>

\* tryDownloadPdf(url) against the exchange of the request
Download ==
    /\ pc = "idle"
    /\ request.name = "tryDownloadPdf"
    /\ response' = tryDownloadPdf(request.arguments)
    /\ pc' = "evaluated"
    /\ UNCHANGED <<sharedVars, callVars, loopVars, candVars, upVars, faults, kbInfo, netLog,
                   cur, hist, reports>>

\* the scratch-file names the ingest loop gives to two candidates
BaseNames ==
    /\ pc = "idle"
    /\ request.name = "baseName"
    /\ response' = [i \in 1..2 |-> baseName(request.arguments[i])]
    /\ pc' = "evaluated"
    /\ UNCHANGED <<sharedVars, callVars, loopVars, candVars, upVars, faults, kbInfo, netLog,
                   cur, hist, reports>>

NextPure ==
    \/ Normalize
    \/ \E form \in {"canonical", "short"} : NormalizeAgain(form)
    \/ Score
    \/ Download
    \/ BaseNames

SpecPure == InitPure /\ [][NextPure]_vars

(***************************************************************************)
(* Properties of the ingest tool.                                          *)
(***************************************************************************)
\* the running call returned the structured report
Reported == pc = "returned" /\ "results" \in DOMAIN response

\* the running call returned an error response
Failed == pc = "returned" /\ "text" \in DOMAIN response

\* the file ids of the recorded candidates whose polled status was "completed",
\* in the order the candidates were processed
CompletedFileIds ==
    LET F[i \in 0..Len(processed)] ==
            IF i = 0 THEN <<>>
            ELSE IF hist[i].polled = "completed"
                 THEN Append(F[i - 1], processed[i].openwebui_file_id)
                 ELSE F[i - 1]
    IN  F[Len(processed)]

AttachRequests == {i \in DOMAIN netLog : netLog[i].op = "attach"}

\* C1: the file-id list of the batch-attach request is exactly the file ids of
\* the candidates whose polling ended with status "completed", in processing
\* order; a file that ended "failed" or "timeout", or whose upload or poll
\* threw, is not in it.
C1_AttachesCompleted ==
    /\ pc = "attach" => successfulFileIds = CompletedFileIds
    /\ \A i \in AttachRequests :
          /\ netLog[i].arg[2] = CompletedFileIds
          /\ \A j \in DOMAIN hist :
                hist[j].polled # "completed" =>
                    \A k \in DOMAIN netLog[i].arg[2] :
                        netLog[i].arg[2][k] # processed[j].openwebui_file_id
                        \/ processed[j].openwebui_file_id = NullId

\* C1 witness: two candidates were recorded, the first did not complete (its
\* file was uploaded), the second did, and the attach request was sent
C1_Witness ==
    /\ AttachRequests # {}
    /\ Len(hist) = 2
    /\ hist[1].polled \in {"failed", "timeout"}
    /\ processed[1].openwebui_file_id # NullId
    /\ hist[2].polled = "completed"

\* a PDF download was attempted for the candidate whose trace is h
Attempted(h) == h.download # "not attempted"

\* the attempted download of h returned the bytes of a PDF
Downloaded(h) == h.download = "ok"

\* the attempted download of h threw
DownloadThrew(h) == h.download \notin {"not attempted", "pending", "ok"}

\* C2 as stated: a download is attempted iff the candidate is open-access and its
\* PDF URL is not null, and the record's retrieval_mode is "pdf" exactly when the
\* download was attempted and succeeded.
C2_AsStated ==
    \A j \in DOMAIN hist :
        /\ Attempted(hist[j]) <=> (hist[j].cand.isOa /\ hist[j].cand.pdfUrl # Null)
        /\ processed[j].retrieval_mode = "pdf" <=> Downloaded(hist[j])

\* C2, amended: a download is attempted iff the candidate is open-access and its
\* PDF URL is neither null nor the empty string, and the record's retrieval_mode
\* is "pdf" exactly when the download succeeded and its bytes were written to the
\* scratch file; otherwise it is "abstract-only".
C2_DownloadIffOaWithUrl ==
    /\ cur.cand # NoCandidate =>
          (Attempted(cur) <=> (cur.cand.isOa /\ cur.cand.pdfUrl \notin {Null, ""}))
    /\ \A j \in DOMAIN hist :
          /\ Attempted(hist[j]) <=>
                (hist[j].cand.isOa /\ hist[j].cand.pdfUrl \notin {Null, ""})
          /\ processed[j].retrieval_mode = "pdf" <=>
                (Downloaded(hist[j]) /\ ScratchPath(hist[j].cand, "pdf") \in hist[j].written)
          /\ processed[j].retrieval_mode \in {"pdf", "abstract-only"}

\* C2 witness: of two recorded candidates the first is open-access with a PDF URL
\* and was stored as a PDF, the second is open-access with an empty PDF URL
C2_Witness ==
    /\ Len(hist) = 2
    /\ processed[1].retrieval_mode = "pdf"
    /\ hist[2].cand.isOa
    /\ hist[2].cand.pdfUrl = ""
    /\ processed[2].retrieval_mode = "abstract-only"

\* the stages of a candidate from the upload to the cleanup
UploadStages == {"uploadRead", "uploadPost", "status", "sleep", "unlink"}

CandidateFailed(h, note, status) ==
    \/ DownloadThrew(h)
    \/ Downloaded(h) /\ note # NoteDownloaded
    \/ h.uploadTried /\ status # "completed"

\* C4 as stated: whenever the PDF acquisition, the upload or the status poll of
\* a candidate failed, the call still processes every later selected candidate
\* and returns a results list with one record for each selected candidate.
C4_AsStated ==
    /\ pc = "returned"
    /\ input # NoInput
    /\ \/ CandidateFailed(cur, retrievalNote, "completed")
       \/ \E j \in DOMAIN hist :
             CandidateFailed(hist[j], processed[j].retrieval_note,
                             processed[j].openwebui_status)
    => /\ Reported
       /\ Len(response.results) = Len(selectedIds)

\* the messages of the errors of a missing configuration and of a malformed input
ConfigOrInputErrors ==
    {"ZodError", "OPENWEBUI_BASE_URL is required", "OPENWEBUI_API_KEY is required"}

\* C5 as stated: a call returns an error instead of the report only when the
\* address or the credential of the knowledge store is missing or the input is
\* malformed; after any other failure it still returns the report.
C5_AsStated == Failed => response.text \in ConfigOrInputErrors

\* the ids of the list without the repeats of an id, first occurrences in order
FirstOccurrences(ids) ==
    LET F[i \in 0..Len(ids)] ==
            IF i = 0 THEN <<>>
            ELSE IF \E j \in 1..(i - 1) : ids[j] = ids[i] THEN F[i - 1]
                 ELSE Append(F[i - 1], ids[i])
    IN  F[Len(ids)]

\* the first min(maxPapers, number of distinct ids) entries of the input list
\* after removing the repeats
ExpectedIds ==
    SubSeq(FirstOccurrences(input.candidateIds), 1,
           Min(input.maxPapers, Cardinality(Range(input.candidateIds))))

\* C6: the candidates a call processes are the first min(maxPapers, number of
\* distinct ids) entries of the input list without its repeats, first
\* occurrences in order (selectedIds is that list); the results hold one record
\* for each, in that order, and no record for any other id.
C6_ProcessesSelection ==
    input # NoInput =>
        /\ selectedIds = ExpectedIds
        /\ Len(hist) <= Len(selectedIds)
        /\ Len(processed) = Len(hist)
        /\ \A j \in DOMAIN hist :
              /\ hist[j].raw = selectedIds[j]
              /\ processed[j].openalex_id = normalizeOpenAlexId(selectedIds[j]).canonical
        /\ cur.raw # <<>> => cur.raw = selectedIds[Len(hist) + 1]
        /\ Reported =>
              /\ response.results = processed
              /\ Len(response.results) = Len(selectedIds)
              /\ response.uploaded_success_count + response.uploaded_failed_count
                    = Len(selectedIds)

\* C6 witness: the list repeats its first id and then names another work, the
\* cap is 1, and the report holds the one record of the first id
C6_Witness ==
    /\ Reported
    /\ Len(input.candidateIds) = 3
    /\ input.candidateIds[1] = input.candidateIds[2]
    /\ input.candidateIds[3] # input.candidateIds[1]
    /\ input.maxPapers = 1
    /\ Len(response.results) = 1
    /\ response.results[1].openalex_id
          = normalizeOpenAlexId(input.candidateIds[1]).canonical

KbSearches == {i \in DOMAIN netLog : netLog[i].op = "kbSearch"}

KbCreates == {i \in DOMAIN netLog : netLog[i].op = "kbCreate"}

\* C7: the knowledge base is resolved (a search, then at most one create) once,
\* after the last candidate was recorded and after every request made for a
\* candidate, also when no candidate succeeded; the attach request is sent once
\* when the successful set is not empty and never when it is empty, and only
\* after the knowledge base was resolved.
C7_ResolvesOnceThenAttaches ==
    /\ Cardinality(KbSearches) <= 1
    /\ Cardinality(KbCreates) <= 1
    /\ Cardinality(AttachRequests) <= 1
    /\ KbSearches # {} => Len(processed) = Len(selectedIds)
    /\ \A i \in KbSearches, j \in DOMAIN netLog :
          netLog[j].op \in {"getWork", "download", "upload"} => j < i
    /\ \A c \in KbCreates : \E k \in KbSearches : k < c
    /\ \A a \in AttachRequests :
          /\ \E k \in KbSearches : k < a
          /\ \A c \in KbCreates : c < a
          /\ kbInfo # NoKbInfo
          /\ netLog[a].arg[1] = kbInfo.knowledgeBase.id
          /\ netLog[a].arg[2] # <<>>
    /\ Reported =>
          /\ Cardinality(KbSearches) = 1
          /\ response.knowledge_base.created <=> KbCreates # {}
          /\ Cardinality(AttachRequests) = IF successfulFileIds # <<>> THEN 1 ELSE 0

\* C7 witness: neither of two candidates succeeded, and the report was returned
\* after one search and one create and no attach
C7_Witness ==
    /\ Reported
    /\ Len(hist) = 2
    /\ successfulFileIds = <<>>
    /\ Cardinality(KbSearches) = 1
    /\ Cardinality(KbCreates) = 1
    /\ AttachRequests = {}

\* the base of the server that the report names
ReportedBase == CHOOSE kb \in kbs : kb.id = response.knowledge_base.id

\* C8: in a report actual_public is true exactly when the access control the
\* resolved base was observed with is null, and warning is not null exactly when
\* requested_public is true and actual_public is false.
C8_VisibilityAndWarning ==
    Reported =>
        /\ \E kb \in kbs : kb.id = response.knowledge_base.id
        /\ response.knowledge_base.requested_public = input.makePublic
        /\ response.knowledge_base.actual_public <=> ReportedBase.access_control = Null
        /\ response.warning # Null <=>
              (response.knowledge_base.requested_public
               /\ ~response.knowledge_base.actual_public)

\* C8 witness: a public base was asked for, the resolved base carries an access
\* control, and the report warns with actual_public false
C8_Witness ==
    /\ Reported
    /\ input.makePublic
    /\ ReportedBase.access_control = "restricted"
    /\ ~response.knowledge_base.actual_public
    /\ response.warning # Null

\* the names are equal case-insensitively after trimming
SameName(a, b) == ToLowerCase(Trim(a)) = ToLowerCase(Trim(b))

\* of two successive reports for the same name, the first of which created the
\* base, the second reuses it
C9_SuccessiveReuse ==
    \A i \in DOMAIN reports :
        /\ i + 1 \in DOMAIN reports
        /\ reports[i].requested = reports[i + 1].requested
        /\ reports[i].created
        => /\ ~reports[i + 1].created
           /\ reports[i + 1].id = reports[i].id

\* a report says created only when no base that was there before has the name
\* asked for (the ids of the bases count up in the order of their creation)
C9_CreatesOnlyWhenAbsent ==
    \A i \in DOMAIN reports :
        reports[i].created =>
            ~\E kb \in kbs : /\ kb.id[2] < reports[i].id[2]
                             /\ SameName(kb.name, reports[i].requested)

\* C9 as stated: two successive calls with the same knowledgeBaseName, the first
\* of which found no such base, report created=true and then created=false with
\* the same id; and a base is created only when no existing base's name equals
\* the requested name case-insensitively after trimming.
C9_AsStated == C9_SuccessiveReuse /\ C9_CreatesOnlyWhenAbsent

\* the scratch files whose removal failed
Leftovers == {hist[j].unlinkTried : j \in {k \in DOMAIN hist : ~hist[k].unlinkOk}}

\* no candidate has a scratch file of its own: between two candidates, after
\* the last one, and in a candidate before its file is written
NoScratchFileDue ==
    \/ pc \in {"resolve", "getWork", "download", "kbSearch", "kbCreate", "attach"}
    \/ Reported

\* every recorded candidate had a scratch file written and its removal attempted,
\* and where no file is due the scratch directory holds only files whose removal
\* failed
C10_Removed ==
    /\ \A j \in DOMAIN hist :
          /\ hist[j].written # {}
          /\ hist[j].unlinkTried \in hist[j].written
    /\ NoScratchFileDue /\ callNo > 0 => DOMAIN fs \subseteq Leftovers

\* the upload and the polling end in the cleanup whatever their outcome, and the
\* cleanup, failed or not, pushes the record as it stood and goes on
C10_Step ==
    /\ pc \in UploadStages \ {"unlink"} => pc' \in UploadStages
    /\ pc = "unlink" =>
          /\ processed' = Append(processed, Record)
          /\ pc' \in {"resolve", "kbSearch"}
          /\ response' = response
          /\ successfulFileIds' = successfulFileIds

\* C10: the scratch file written for a candidate is removed before the next
\* candidate is processed and before the call returns, whatever the outcome of
\* the upload and the polling; a failure of the removal changes neither the
\* candidate's record nor the outcome of the call.
C10_ScratchFileRemoved == []C10_Removed /\ [][C10_Step]_vars

\* C10 witness: the upload of the first candidate threw and its file was
\* removed; the second candidate completed and the removal of its file failed;
\* the report was returned
C10_Witness ==
    /\ Reported
    /\ Len(hist) = 2
    /\ hist[1].uploadTried
    /\ hist[1].polled = "none"
    /\ hist[1].unlinkOk
    /\ processed[2].openwebui_status = "completed"
    /\ processed[2].error = Null
    /\ ~hist[2].unlinkOk
    /\ DOMAIN fs = {hist[2].unlinkTried}

(***************************************************************************)
(* Properties of the upload and of the polling.                            *)
(***************************************************************************)
\* the statuses waitForFileProcessed returns
WaitResults == {"completed", "failed", "timeout"}

\* the trace h of a candidate agrees with the status its polling returned
PollAgrees(h, status) ==
    /\ h.polled \in WaitResults \cup {"none"}
    /\ h.polled # "none" => status = h.polled
    /\ h.polled \in {"completed", "failed"} => h.observed = h.polled
    /\ h.polled = "timeout" => h.observed = "pending"

\* C11: waitForFileProcessed returns a status of {completed, failed, timeout}; it
\* returns "completed" or "failed" only when the status request just answered
\* observed that value; after any other answer, a missing status field among
\* them, it sleeps and polls again while the deadline is not reached, and
\* returns "timeout" only once the deadline is reached.
C11_PollOutcome ==
    /\ PollAgrees(cur, IF cur.polled = "none" THEN "none" ELSE uploadStatus)
    /\ \A j \in DOMAIN hist : PollAgrees(hist[j], processed[j].openwebui_status)
    /\ pc = "sleep" => cur.observed \in {"pending", Undefined} /\ cur.polled = "none"
    /\ pc = "status" => cur.polled = "none" /\ now < input.fileProcessTimeoutSec
    /\ pc = "unlink" /\ cur.polled = "timeout" => now >= input.fileProcessTimeoutSec

\* C11 witness: every status request was answered with a value that is neither
\* "completed" nor "failed", and at the deadline the polling returned "timeout"
C11_Witness ==
    /\ pc = "unlink"
    /\ cur.polled = "timeout"
    /\ cur.observed = "pending"
    /\ uploadStatus = "timeout"
    /\ now = input.fileProcessTimeoutSec
    /\ now = MaxPolls

\* C12: when the upload or a status poll of a candidate throws, the record's
\* error is the message of the error thrown, its openwebui_file_id is the id the
\* upload was answered with if the upload had succeeded and null otherwise, its
\* openwebui_status is "failed", and its file id is not in the successful set.
C12_UploadErrorRecorded ==
    /\ pc = "unlink" /\ cur.threw # Null =>
          /\ uploadError = cur.threw
          /\ uploadedFileId = cur.assigned
          /\ uploadStatus = "failed"
          /\ \A k \in DOMAIN successfulFileIds : successfulFileIds[k] # uploadedFileId
    /\ \A j \in DOMAIN hist :
          hist[j].threw # Null =>
              /\ processed[j].error = hist[j].threw
              /\ processed[j].openwebui_file_id = hist[j].assigned
              /\ processed[j].openwebui_status = "failed"
              /\ \A k \in DOMAIN successfulFileIds :
                    successfulFileIds[k] # processed[j].openwebui_file_id
              /\ Reported => response.results[j] = processed[j]

\* C12 witness: the upload of the candidate was answered with a file id, a
\* status poll of that file threw, and the report holds the record with the id,
\* the status "failed" and the message
C12_Witness ==
    /\ Reported
    /\ Len(hist) = 1
    /\ hist[1].assigned # NullId
    /\ hist[1].threw = "OpenWebUI request failed: HTTP"
    /\ response.results[1].openwebui_file_id = hist[1].assigned
    /\ response.results[1].error = "OpenWebUI request failed: HTTP"
    /\ response.uploaded_failed_count = 1

(***************************************************************************)
(* Properties of the tool-call boundary, of the candidate cache and of the *)
(* screen tool.                                                            *)
(***************************************************************************)
IngestToolName == "ingest_candidates_to_openwebui_kb"

\* the address and the credential a call with the arguments args leaves the
\* client with, trimmed
TrimmedAddress(args) == Trim(CoalesceT(args.openwebuiBaseUrl, CoalesceT(env.url, <<>>)))

TrimmedCredential(args) == Trim(CoalesceT(args.openwebuiApiKey, CoalesceT(env.key, <<>>)))

\* req is an ingest call whose input fails the schema, or that finds no address
\* or no credential
IngestRejected(req) ==
    /\ req # NoRequest
    /\ req.name = IngestToolName
    /\ \/ ~SchemaOk(req.arguments)
       \/ TrimmedAddress(req.arguments) = <<>>
       \/ TrimmedCredential(req.arguments) = <<>>

\* a rejected ingest call has returned an error and has made no request, written
\* no file and recorded no candidate
C13_Rejected ==
    IngestRejected(request) =>
        /\ Failed
        /\ response.text \in ConfigOrInputErrors
        /\ netLog = <<>>
        /\ hist = <<>>
        /\ cur = FreshCur

\* the step that starts a rejected ingest call ends it, and changes neither the
\* cache, nor the scratch directory, nor the server
C13_Step ==
    callNo' = callNo + 1 /\ IngestRejected(request') =>
        /\ pc' = "returned"
        /\ candidateCache' = candidateCache
        /\ fs' = fs
        /\ kbs' = kbs
        /\ filesUploaded' = filesUploaded

KnownTools ==
    {"search_paper_candidates", "screen_paper_candidates", IngestToolName}

\* a call is running
Running == pc \notin {"idle", "returned"}

\* a call that returned has a response, flagged as an error or not; a call of a
\* tool the server does not have is answered with an error that names the tool
C14_Responded ==
    pc = "returned" =>
        /\ response # NoResponse
        /\ response.isError \in BOOLEAN
        /\ response.isError <=> "text" \in DOMAIN response
        /\ request.name \notin KnownTools =>
              response = ErrorResponse("Unknown tool: " \o request.name)

\* the step that ends a call ends it with a response, an error thrown by the
\* search or by the screen tool ends the call with a flagged response, and no
\* step of a call stops the server
C14_Step ==
    /\ Running /\ pc' = "returned" => response' # NoResponse
    /\ pc \in {"searchWorks", "screenGetWork"} /\ faults' > faults =>
          pc' = "returned" /\ response' = ErrorResponse("OpenAlex request failed: HTTP")
    /\ pc' \in {"idle", "returned", "mkdir", "resolve", "getWork", "download", "writePdf",
                "writeNote", "writeFallback", "uploadRead", "uploadPost", "status", "sleep",
                "unlink", "kbSearch", "kbCreate", "attach", "searchWorks", "screenResolve",
                "screenGetWork"}

\* C14: every tool call, whatever the name of the tool, known or not, and
\* whatever error is thrown inside the tool, ends with a response returned to
\* the caller; an error is returned as a response flagged isError that carries
\* the message; and the server stays in a state from which the next call starts.
C14_AlwaysResponds == []C14_Responded /\ [][C14_Step]_vars

\* C14 witness: a call that follows another call names a tool the server does
\* not have and is answered with the error
C14_Witness ==
    /\ callNo = 2
    /\ pc = "returned"
    /\ request.name \in UnknownNames
    /\ response.isError
    /\ response.text = "Unknown tool: delete_paper"

\* C15: for every candidate in the cache, the cache holds an entry under the
\* candidate's canonical id and an entry under its short id, both with that
\* candidate as their value, after any calls of the search, the screen and the
\* ingest tool.
C15_BothKeysSameValue ==
    \A k \in DOMAIN candidateCache :
        LET cand == candidateCache[k]
        IN  /\ k \in {cand.openalexId, cand.openalexShortId}
            /\ cand.openalexId \in DOMAIN candidateCache
            /\ cand.openalexShortId \in DOMAIN candidateCache
            /\ candidateCache[cand.openalexId] = cand
            /\ candidateCache[cand.openalexShortId] = cand
            /\ cand.openalexId = CanonicalPrefix \o cand.openalexShortId

\* C15 witness: W1 and W2 are cached, and a screen call that followed another
\* call left W1 with a score that W2 does not have
C15_Witness ==
    /\ callNo = 2
    /\ pc = "returned"
    /\ request.name = "screen_paper_candidates"
    /\ Cardinality(DOMAIN candidateCache) = 4
    /\ candidateCache[<<"W", "1">>].relevanceScore # candidateCache[<<"W", "2">>].relevanceScore
    /\ candidateCache[<<"W", "1">>].relevanceScore = [num |-> 80, den |-> 200]

\* a screen call returned its report
Screened ==
    /\ pc = "returned"
    /\ request # NoRequest
    /\ request.name = "screen_paper_candidates"
    /\ ~response.isError

\* the positions of the supplied ids whose score reaches the threshold
RelevantPositions ==
    {i \in DOMAIN candidates :
        candidates[i].relevanceScore.num * 100
            >= request.arguments.threshold * candidates[i].relevanceScore.den}

\* the number of the entries of list that are equal to entry
Occurrences(list, entry) == Cardinality({i \in DOMAIN list : list[i] = entry})

\* C17: a screen call that completes places every supplied id, counted as often
\* as it was supplied, in exactly one partition: in relevant when its score,
\* computed anew against the query of the call, is at least the threshold, in
\* irrelevant otherwise; the two counts add up to the number of the supplied
\* ids, and the cache holds the rescored candidate of each id.
C17_ScreenPartitions ==
    Screened =>
        LET ids == request.arguments.candidateIds
        IN  /\ Len(candidates) = Len(ids)
            /\ response.relevant_count = Cardinality(RelevantPositions)
            /\ response.irrelevant_count = Len(ids) - Cardinality(RelevantPositions)
            /\ Len(response.relevant) = response.relevant_count
            /\ Len(response.irrelevant) = response.irrelevant_count
            /\ \A i \in DOMAIN ids :
                  LET idInfo == normalizeOpenAlexId(ids[i])
                      entry  == formatCandidate(candidates[i])
                  IN  /\ candidates[i].openalexId = idInfo.canonical
                      /\ candidates[i].relevanceScore =
                            computeRelevanceScore(request.arguments.query,
                                                  TitleOf(idInfo.short), NoAbstract).score
                      /\ Occurrences(response.relevant, entry) =
                            IF i \in RelevantPositions
                            THEN Occurrences(FormatAll(candidates), entry) ELSE 0
                      /\ Occurrences(response.irrelevant, entry) =
                            IF i \in RelevantPositions
                            THEN 0 ELSE Occurrences(FormatAll(candidates), entry)
                      /\ candidateCache[idInfo.canonical] = candidates[i]
                      /\ candidateCache[idInfo.short] = candidates[i]

\* C17 witness: W1 was supplied twice with the query "w1 w2"; its score is the
\* threshold itself, and both its occurrences are in relevant
C17_Witness ==
    /\ Screened
    /\ request.arguments.candidateIds = <<<<"W", "1">>, <<"W", "1">>>>
    /\ candidates[1].relevanceScore.num * 100
          = request.arguments.threshold * candidates[1].relevanceScore.den
    /\ response.relevant_count = 2
    /\ response.irrelevant_count = 0


(***************************************************************************)
(* Properties of the requests of one call and of their order.              *)
(***************************************************************************)
\* what a request is made for: a fetch by id for the work, a download and an
\* upload for the candidate the loop is at, the requests to the knowledge base
\* for the call
TargetOf(req) ==
    CASE req.op = "getWork" -> req.arg
      [] req.op \in {"download", "upload"} -> req.at
      [] OTHER -> "call"

\* the requests of the running call that are the operation op
RequestsOf(op) == {i \in DOMAIN netLog : netLog[i].op = op}

CandidateStages ==
    {"resolve", "getWork", "download", "writePdf", "writeNote", "writeFallback",
     "uploadRead", "uploadPost", "status", "sleep", "unlink"}

\* the place of a request in the steps of its candidate
StageRank(op) ==
    CASE op = "getWork" -> 1 [] op = "download" -> 2 [] op = "upload" -> 3 [] OTHER -> 4

\* C20: within one ingest call the steps of a candidate follow the order acquire,
\* upload, poll, cleanup, record: while the loop is at candidate idx the records
\* of the idx - 1 candidates before it, and no other, are final; the file of a
\* candidate is written before its upload starts; a status poll is issued only
\* for the file id that the upload of this candidate returned; the cleanup is
\* tried before the record is made; and the requests of the call are in the
\* order of the candidates, fetch before download before upload for each, so no
\* step of candidate i + 1 starts before the record of candidate i.
C20_StepsInOrder ==
    /\ pc \in CandidateStages =>
          /\ Len(processed) = idx - 1
          /\ Len(hist) = idx - 1
          /\ \A i \in DOMAIN netLog : netLog[i].at <= idx
    /\ pc \in {"uploadRead", "uploadPost"} =>
          /\ cur.written # {}
          /\ \A i \in RequestsOf("upload") : netLog[i].at < idx
    /\ pc \in {"status", "sleep"} =>
          /\ uploadedFileId # NullId
          /\ cur.assigned = uploadedFileId
          /\ \E i \in RequestsOf("upload") : netLog[i].at = idx
    /\ pc = "unlink" => cur.written # {}
    /\ \A k \in DOMAIN hist :
          /\ hist[k].uploadTried => hist[k].written # {}
          /\ hist[k].polled # "none" => hist[k].assigned # NullId
          /\ hist[k].assigned # NullId => hist[k].uploadTried
          /\ hist[k].unlinkTried # NoPath
          /\ processed[k].openwebui_file_id = hist[k].assigned
    /\ \A i, j \in DOMAIN netLog :
          i < j /\ StageRank(netLog[i].op) < 4 =>
              \/ netLog[i].at < netLog[j].at
              \/ /\ netLog[i].at = netLog[j].at
                 /\ StageRank(netLog[i].op) < StageRank(netLog[j].op)

\* C20 witness: two candidates went through all their steps, the first with a
\* PDF that was downloaded, and the files of both were processed
C20_Witness ==
    /\ Reported
    /\ Len(processed) = 2
    /\ hist[1].download = "ok"
    /\ hist[1].polled = "completed"
    /\ hist[2].polled = "completed"
    /\ Cardinality(RequestsOf("upload")) = 2


(***************************************************************************)
(* Properties of normalizeOpenAlexId and of computeRelevanceScore.         *)
(***************************************************************************)
\* the string holds a work-ID pattern: a W in either case with a digit behind it
HoldsWorkIdPattern(raw) ==
    \E i \in 1..(Len(raw) - 1) :
        /\ raw[i] \in {"W", "w"}
        /\ raw[i + 1] \in {"0", "1", "2", "3", "4", "5", "6", "7", "8", "9"}

\* normalizeOpenAlexId was applied to the raw id of the request
Normalized == request.name = "normalizeOpenAlexId" /\ pc = "evaluated"

\* normalizeOpenAlexId was applied to a form that it had returned
NormalizedAgain == request.name = "normalizeOpenAlexId" /\ pc = "evaluatedAgain"

\* C18: normalizeOpenAlexId is idempotent: for every input that it accepts,
\* normalizing the canonical form it returned, and likewise the short form,
\* yields the same pair of canonical and short form; the canonical form is the
\* fixed prefix followed by the short form; and for every input that holds no
\* work-ID pattern, "not-an-id" among them, it fails with the error of the
\* identifier format, and for no other input.
C18_Idempotent ==
    /\ Normalized =>
          /\ Throws(response) <=> ~HoldsWorkIdPattern(request.arguments)
          /\ Throws(response) => response.throw = "Invalid OpenAlex id"
          /\ ~Throws(response) =>
                 response.canonical = CanonicalPrefix \o response.short
    /\ NormalizedAgain =>
          /\ ~Throws(response.again)
          /\ response.again = response.first

\* C18 witness: the address of a work, written in lower case, was normalized, and
\* the canonical form that came back was normalized again
C18_Witness ==
    /\ NormalizedAgain
    /\ request.arguments = CanonicalPrefix \o <<"w", "1", "2">>
    /\ response.form = "canonical"
    /\ response.first.short = <<"W", "1", "2">>
    /\ response.again.canonical = CanonicalPrefix \o <<"W", "1", "2">>

\* computeRelevanceScore was applied to the example
ExampleScored ==
    /\ request.name = "computeRelevanceScore"
    /\ pc = "evaluated"
    /\ request.arguments = [query |-> ExampleQuery, title |-> ExampleTitle, abstract |-> <<>>]

\* the statement of the example as it stands: all three tokens of the query are
\* found, no boost is given for the phrase, and the score is 0.80
C19_AsStated ==
    ExampleScored =>
        /\ response.reasons = <<<<"query_coverage=", 100>>, <<"title_coverage=", 100>>>>
        /\ response.score.num * 100 = 80 * response.score.den

\* C19: computeRelevanceScore with the query "graph neural network", the title
\* "Graph Neural Networks for Protein Function" and an empty abstract finds two
\* of the three tokens of the query in the title ("network" is no token of the
\* title, "networks" is), so titleCoverage = bodyCoverage = 0.67; the query in
\* lower case is a part of the title in lower case, so phraseBoost = 0.15;
\* abstractBoost = 0; the score is 0.55 * 2/3 + 0.25 * 2/3 + 0.15 = 205/300,
\* printed as 0.683.
C19_ExampleScore ==
    ExampleScored =>
        /\ tokenize(ExampleQuery) = <<<<"g", "r", "a", "p", "h">>,
                                      <<"n", "e", "u", "r", "a", "l">>,
                                      <<"n", "e", "t", "w", "o", "r", "k">>>>
        /\ <<"n", "e", "t", "w", "o", "r", "k">> \notin Range(tokenize(ExampleTitle))
        /\ <<"n", "e", "t", "w", "o", "r", "k", "s">> \in Range(tokenize(ExampleTitle))
        /\ response.reasons = <<<<"query_coverage=", 67>>, <<"title_coverage=", 67>>,
                                <<"exact_query_phrase_in_title">>>>
        /\ response.score = [num |-> 205, den |-> 300]
        /\ ToFixed3(response.score) = 683

\* C19 witness: the example was scored, and the boost for the phrase was given
C19_Witness ==
    /\ ExampleScored
    /\ <<"exact_query_phrase_in_title">> \in Range(response.reasons)
    /\ response.score.num = 205


(***************************************************************************)
(* Properties of the polling deadline.                                     *)
(***************************************************************************)
\* the deadline of the running call has passed
DeadlinePassed == now >= input.fileProcessTimeoutSec

\* a status request is made before the deadline only; a poll that ended with
\* "timeout" ended after the deadline, threw nothing, and left the status
\* "timeout" and the error string of line 387; the record of the candidate and
\* the report carry them
C21_TimeoutRecorded ==
    /\ pc = "status" => ~DeadlinePassed
    /\ cur.polled = "timeout" =>
          /\ DeadlinePassed
          /\ cur.threw = "null"
          /\ uploadStatus = "timeout"
          /\ uploadError = "OpenWebUI processing timeout"
    /\ \A k \in DOMAIN hist :
          hist[k].polled = "timeout" =>
              /\ processed[k].openwebui_status = "timeout"
              /\ processed[k].error = "OpenWebUI processing timeout"
              /\ processed[k].openwebui_file_id = hist[k].assigned
    /\ pc = "returned" /\ hist # <<>> => Reported /\ response.results = processed

\* C21: provided every status request returns and the clock advances,
\* waitForFileProcessed returns for every file: against a server that never
\* reports "completed" or "failed", a poll that has started ends with "timeout"
\* once the deadline has passed, and the timeout is the status of the record,
\* with the error string that explains it, and is never thrown.
C21_PollEndsWithTimeout ==
    /\ []C21_TimeoutRecorded
    /\ (pc = "status") ~> (pc = "unlink" /\ cur.polled = "timeout" /\ DeadlinePassed)

\* C21 witness: the server answered two status requests without a status, the
\* deadline passed in the second sleep, and the report holds the record
C21_Witness ==
    /\ Reported
    /\ input.fileProcessTimeoutSec = 2
    /\ hist[1].polled = "timeout"
    /\ hist[1].observed = "pending"
    /\ faults = 2
    /\ response.results[1].openwebui_status = "timeout"
    /\ response.results[1].error = "OpenWebUI processing timeout"


(***************************************************************************)
(* Properties of the retrieval note.                                       *)
(***************************************************************************)
\* the note begins with the words "PDF download failed"
SaysDownloadFailed(note) == note[1] = "PDF download failed ("

\* C22: for every candidate that does not meet the preconditions of the PDF
\* tier (it is not open-access, or it has no PDF URL) the record has the
\* retrieval mode "abstract-only" and the note "OA PDF unavailable; stored
\* abstract-only note."; a note that begins with "PDF download failed" is in the
\* record only of a candidate for which a PDF download was attempted.
C22_AsStated ==
    \A k \in DOMAIN hist :
        /\ ~WantsPdf(hist[k].cand) =>
              /\ processed[k].retrieval_mode = "abstract-only"
              /\ processed[k].retrieval_note = NoteUnavailable
        /\ SaysDownloadFailed(processed[k].retrieval_note) =>
              hist[k].download # "not attempted"


(***************************************************************************)
(* Properties of tryDownloadPdf.                                           *)
(***************************************************************************)
\* tryDownloadPdf was applied to the exchange of the request
DownloadTried == request.name = "tryDownloadPdf" /\ pc = "evaluated"

\* C23: tryDownloadPdf accepts a response if and only if the HTTP status is a
\* success, the content length, declared in the header or measured on the body
\* received, does not exceed 80 MiB, and the content-type header or the first
\* four bytes of the body ("%PDF") indicate a PDF; in every other case it fails.
C23_AsStated ==
    DownloadTried =>
        LET resp == request.arguments
        IN  ~Throws(response) <=>
                /\ resp.transport
                /\ resp.ok
                /\ resp.contentLength <= MaxPdfBytes
                /\ resp.bodyLen <= MaxPdfBytes
                /\ resp.contentType \/ resp.signature = "%PDF"


(***************************************************************************)
(* Properties of the selection by identifier.                              *)
(***************************************************************************)
\* C24: no candidate is ingested more than once in one ingest call: for any
\* list, one that names the same work in different forms of its identifier
\* among them, the results hold at most one record for a canonical identifier,
\* and at most one upload is made for a work.
C24_AsStated ==
    /\ \A i, j \in DOMAIN processed :
          processed[i].openalex_id = processed[j].openalex_id => i = j
    /\ \A i, j \in DOMAIN hist :
          /\ hist[i].uploadTried
          /\ hist[j].uploadTried
          /\ hist[i].cand.openalexId = hist[j].cand.openalexId
          => i = j

(***************************************************************************)
(* Properties of the scratch-file names                                    *)
(***************************************************************************)
BaseNamesTried == request.name = "baseName" /\ pc = "evaluated"

\* C25: two candidates with distinct short ids get distinct scratch-file names,
\* whatever their titles, titles of 120 characters or more included
C25_AsStated ==
    (BaseNamesTried
        /\ request.arguments[1].openalexShortId # request.arguments[2].openalexShortId)
    => response[1] # response[2]

(***************************************************************************)
(* Properties of the candidate cache                                       *)
(***************************************************************************)
\* the fields of a cached candidate other than its score and its reasons
Bibliographic(cand) ==
    [f \in DOMAIN cand \ {"relevanceScore", "relevanceReasons"} |-> cand[f]]

\* C26: over the calls of the three tools no key leaves the cache, and the
\* bibliographic and open-access fields of a cached entry never change: a later
\* write changes its relevanceScore and relevanceReasons alone
C26_AsStated ==
    [][\A k \in DOMAIN candidateCache :
          /\ k \in DOMAIN candidateCache'
          /\ Bibliographic(candidateCache'[k]) = Bibliographic(candidateCache[k])]_vars

(***************************************************************************)
(* Properties of resolveCandidate                                          *)
(***************************************************************************)
\* the identifier the running call is resolving
ResolvedRaw == IF pc \in {"resolve", "getWork"} THEN selectedIds[idx] ELSE input.candidateIds[idx]

\* the cache holds the canonical or the short form of the identifier
IsCached(raw) ==
    /\ ~Throws(normalizeOpenAlexId(raw))
    /\ \/ normalizeOpenAlexId(raw).canonical \in DOMAIN candidateCache
       \/ normalizeOpenAlexId(raw).short \in DOMAIN candidateCache

CachedValue(raw) ==
    IF normalizeOpenAlexId(raw).canonical \in DOMAIN candidateCache
    THEN candidateCache[normalizeOpenAlexId(raw).canonical]
    ELSE candidateCache[normalizeOpenAlexId(raw).short]

\* the step is the return of a fetch-by-id
FetchedById ==
    /\ Len(netLog') = Len(netLog) + 1
    /\ netLog'[Len(netLog')].op = "getWork"

\* the candidate a step of resolveCandidate hands to its caller
ResolvedTo == IF pc \in {"resolve", "getWork"} THEN candidate' ELSE candidates'[Len(candidates')]

C27_Step ==
    /\ (pc = "resolve" /\ IsCached(ResolvedRaw))
       => /\ pc' # "getWork"
          /\ netLog' = netLog
          /\ ResolvedTo = CachedValue(ResolvedRaw)
    /\ (pc = "screenResolve" /\ IsCached(ResolvedRaw))
       => /\ pc' # "screenGetWork"
          /\ netLog' = netLog
          /\ Len(candidates') = Len(candidates) + 1
          /\ Bibliographic(ResolvedTo) = Bibliographic(CachedValue(ResolvedRaw))
    /\ FetchedById
       => /\ pc \in {"getWork", "screenGetWork"}
          /\ ~IsCached(ResolvedRaw)
          /\ netLog'[Len(netLog')].arg = normalizeOpenAlexId(ResolvedRaw).short
    /\ (FetchedById /\ (pc' \in {"download", "writeNote"} \/ candidates' # candidates))
       => LET idInfo == normalizeOpenAlexId(ResolvedRaw)
          IN  /\ {idInfo.canonical, idInfo.short} \subseteq DOMAIN candidateCache'
              /\ candidateCache'[idInfo.canonical] = candidateCache'[idInfo.short]
              /\ Bibliographic(candidateCache'[idInfo.canonical]) = Bibliographic(ResolvedTo)

\* C27: resolving an identifier whose canonical or short form is cached issues no
\* fetch-by-id and hands back the cached value, in whatever form the identifier
\* is written and whatever the query; a fetch-by-id happens on a miss alone, and
\* what it returns is in the cache under both keys when it is handed back
C27_FetchOnMissOnly == [][C27_Step]_vars

\* a screen call that named W1 in lower case and as a URL has returned: one fetch,
\* for the first of the two, and both keys cached
C27_Witness ==
    /\ pc = "returned"
    /\ request.name = "screen_paper_candidates"
    /\ request.arguments.candidateIds = <<<<"w", "1">>, CanonicalPrefix \o <<"W", "1">>>>
    /\ netLog = <<[op |-> "getWork", arg |-> <<"W", "1">>, at |-> 1]>>
    /\ Len(candidates) = 2
    /\ Bibliographic(candidates[1]) = Bibliographic(candidates[2])
    /\ {<<"W", "1">>, CanonicalPrefix \o <<"W", "1">>} \subseteq DOMAIN candidateCache

(***************************************************************************)
(* Properties of the records of a report                                   *)
(***************************************************************************)
\* the records of the returned report whose status is "completed"
CompletedRecords ==
    {i \in 1..Len(response.results) : response.results[i].openwebui_status = "completed"}

\* C30: in a returned report every record has the status "completed", "failed"
\* or "timeout", its error is null exactly when the status is "completed", and a
\* null file id goes with the status "failed"; uploaded_success_count is the
\* number of completed records, and with uploaded_failed_count it adds up to the
\* number of records
C30_RecordsConsistent ==
    Reported
    => /\ \A i \in 1..Len(response.results) :
            LET rec == response.results[i]
            IN  /\ rec.openwebui_status \in {"completed", "failed", "timeout"}
                /\ (rec.error = Null) <=> (rec.openwebui_status = "completed")
                /\ (rec.openwebui_file_id = NullId) => (rec.openwebui_status = "failed")
       /\ response.uploaded_success_count = Cardinality(CompletedRecords)
       /\ response.uploaded_success_count + response.uploaded_failed_count
             = Len(response.results)

\* a report of two records: the first upload was refused, the second completed
C30_Witness ==
    /\ Reported
    /\ Len(response.results) = 2
    /\ response.results[1].openwebui_file_id = NullId
    /\ response.results[1].openwebui_status = "failed"
    /\ response.results[1].error # Null
    /\ response.results[2].openwebui_status = "completed"
    /\ response.results[2].error = Null
    /\ response.uploaded_success_count = 1
    /\ response.uploaded_failed_count = 1

(***************************************************************************)
(* Properties of overlapping calls                                         *)
(***************************************************************************)
\* C28: two overlapping ingest calls that name the same knowledge base, against
\* a server that holds no base of that name, create at most one base of that
\* name, and both report the same knowledge base id
C28_AsStated ==
    /\ Cardinality({kb \in kbs : kb.name = <<"a">>}) <= 1
    /\ \A i, j \in 1..Len(reports) :
          reports[i].requested = reports[j].requested => reports[i].id = reports[j].id

\* what the call wrote to its scratch file
WrittenBy(call) ==
    IF call.retrievalMode = "pdf" THEN <<"pdf-bytes">> ELSE call.retrievalNote

\* the call has written its scratch file and its upload has not read it yet
AwaitsRead(call) == call.pc = "uploadRead"

\* C29: the scratch file of a call is neither removed nor overwritten by the
\* other call between its write and the read of its upload: the upload reads
\* what the call wrote
C29_AsStated ==
    \A call \in {Context, other} :
        AwaitsRead(call)
        => /\ call.localPath \in DOMAIN fs
           /\ fs[call.localPath] = WrittenBy(call)

=============================================================================
